---- MODULE Spec2Model ----
(***************************************************************************)
(* Log monitor of gym-automation-monitor: the line classifier              *)
(* (LogMonitor.parse_log_line and its helpers) and the deduplicating       *)
(* scanner (LogMonitor.monitor_logs) of src/log_monitor.py, driven by the  *)
(* commands of src/automation.py.                                          *)
(*                                                                         *)
(* Text is modelled character by character: a line is a TLA+ string and    *)
(* the regular expressions of the source are matchers over its characters. *)
(***************************************************************************)
EXTENDS Integers, Sequences, FiniteSets, Bags, TLC

VARIABLES
    log_exists,        \* Path(log_file_path).exists()
    log_readable,      \* open(log_file_path, 'r') is permitted
    log_lines,         \* the lines of the log file, in file order
    hash_seed,         \* the process's string-hash key (PYTHONHASHSEED)
    processed_errors,  \* LogMonitor.processed_errors
    outcome,           \* how the last monitor_logs call ended: "returned", or
                       \* the exception it raised; "none" once the log changed
    errors,            \* the list the last monitor_logs call returned
    returned,          \* bag of every record any monitor_logs call returned
    seen_before,       \* processed_errors when the last call started
    scans_of_file,     \* calls made since the log last changed (counted to 2)
    scan_report,       \* what the scan_logs that made the last call printed
    fields,            \* classifier input: the parts the raw line is made of
    line,              \* classifier input: the raw line
    parsed,            \* parse_log_line(line): <<>> before the call, <<r>> after
    detected,          \* _detect_error_type(fields.message): <<>>, then <<k>>
    first_scan,        \* the first call of this LogMonitor: made or not,
                       \* what it returned, the log unchanged since or not
    previous_first,    \* first_scan of the LogMonitor of the process before
    monitor_pc,        \* monitor_continuous: "off", "scan", "sleep", "stopped"
    interrupted,       \* the call in which KeyboardInterrupt was raised
    error_arg,         \* the LogError passed to the GitHubIntegrator
    issue_data,        \* create_issue_from_error(error_arg): <<>>, then <<d>>
    pr_data,           \* create_pr_from_error(error_arg, n): <<>>, then <<d>>
    created_issues,    \* GitHubIntegrator.created_issues
    payloads,          \* what the last scan_logs built, one entry a record
    processed_records, \* the records scan_logs has built payloads for
    cut_off,           \* the records scan_logs dropped by errors[:max_batch]
    status_found,      \* the records returned to setup and show_status
    faults,            \* Exceptions still to be raised in payload building
    thread_pc,         \* per thread in monitor_logs: "idle", "test", "append"
    thread_pos,        \* per thread: the line its loop is at
    thread_errors,     \* per thread: its local list errors
    overlapped,        \* two threads have been in monitor_logs at one time
    follow_pc,         \* monitor_logs(follow=True): "off", "loop", "sleep",
                       \* "returned", or the exception that ended it
    follow_pos,        \* follow mode: lines of the file behind the position
    follow_errors,     \* follow mode: its local list errors
    batch_input,       \* the list passed to process_errors_batch
    batch_results,     \* what process_errors_batch returned: <<>>, then <<r>>
    config_file,       \* config.json: missing, or what it holds
    config             \* what load_config returned: <<>>, then <<c>>

vars == <<log_exists, log_readable, log_lines, hash_seed, processed_errors,
          outcome, errors, returned, seen_before, scans_of_file, scan_report,
          fields, line, parsed, detected, first_scan, previous_first,
          monitor_pc, interrupted, error_arg, issue_data, pr_data,
          created_issues, payloads, processed_records, cut_off, status_found,
          faults,
          thread_pc, thread_pos, thread_errors, overlapped, follow_pc,
          follow_pos, follow_errors, batch_input, batch_results, config_file,
          config>>

scanner_vars == <<log_exists, log_readable, log_lines, hash_seed,
                  processed_errors, outcome, errors, returned, seen_before,
                  scans_of_file, scan_report>>

classifier_vars == <<fields, line, parsed, detected>>

history_vars == <<first_scan, previous_first>>

monitor_vars == <<monitor_pc, interrupted>>

integrator_vars == <<error_arg, issue_data, pr_data, created_issues>>

payload_vars == <<payloads, processed_records, cut_off, status_found, faults>>

\* the threads in monitor_logs, follow mode, process_errors_batch and
\* load_config
side_vars ==
    <<thread_pc, thread_pos, thread_errors, overlapped, follow_pc, follow_pos,
      follow_errors, batch_input, batch_results, config_file, config>>

-----------------------------------------------------------------------------
(* Characters and character classes                                        *)

CharAt(s, i) == SubSeq(s, i, i)

Chars(s) == {CharAt(s, i) : i \in 1..Len(s)}

UpperAlphabet == "ABCDEFGHIJKLMNOPQRSTUVWXYZ"

LowerAlphabet == "abcdefghijklmnopqrstuvwxyz"

DigitAlphabet == "0123456789"

UpperChars == Chars(UpperAlphabet)

LowerChars == Chars(LowerAlphabet)

\* \d
DigitChars == Chars(DigitAlphabet)

\* \w
WordChars == UpperChars \cup LowerChars \cup DigitChars \cup {"_"}

\* \s, and the characters str.strip() removes
SpaceChars == {" ", "\t", "\n", "\r"}

\* [a-zA-Z_]
PathStartChars == UpperChars \cup LowerChars \cup {"_"}

\* [a-zA-Z0-9_/\\]
PathChars == WordChars \cup {"/", "\\"}

\* re.IGNORECASE folds a character to lower case before comparing
LowerTable ==
    [c \in UpperChars |->
        CharAt(LowerAlphabet,
               CHOOSE i \in 1..Len(UpperAlphabet) : CharAt(UpperAlphabet, i) = c)]

Fold(c) == IF c \in UpperChars THEN LowerTable[c] ELSE c

\* The end of the longest run of characters of class C that starts at i:
\* the first index at or after i whose character is not in C.
SkipWhile(s, i, C) ==
    CHOOSE j \in i..(Len(s) + 1) :
        /\ \A k \in i..(j - 1) : CharAt(s, k) \in C
        /\ (j = Len(s) + 1 \/ CharAt(s, j) \notin C)

\* s[i:] starts with the fixed-format text `shape`, where "d" stands for \d
MatchesShape(s, i, shape) ==
    /\ i + Len(shape) - 1 <= Len(s)
    /\ \A k \in 1..Len(shape) :
          IF CharAt(shape, k) = "d"
          THEN CharAt(s, i + k - 1) \in DigitChars
          ELSE CharAt(s, i + k - 1) = CharAt(shape, k)

\* str.strip()
strip(s) ==
    LET first == SkipWhile(s, 1, SpaceChars)
        last  == CHOOSE j \in 0..Len(s) :
                    /\ j = 0 \/ CharAt(s, j) \notin SpaceChars
                    /\ \A k \in (j + 1)..Len(s) : CharAt(s, k) \in SpaceChars
    IN  SubSeq(s, first, last)

-----------------------------------------------------------------------------
(* Optional values                                                         *)

\* None where the source has Optional[str]; falsy, as in Python
NoneStr == ""

\* None where the source has Optional[LogError]
NoLogError == [none |-> TRUE]

-----------------------------------------------------------------------------
(* LogMonitor.__init__: the rule table.  A pattern is its alternatives; an  *)
(* alternative is the literals it needs in order, with .* between them (a  *)
(* trailing .* needs nothing).  A fix template is named by its title line. *)

database_error ==
    [error_type |-> "database_error",
     pattern    |-> << <<"DatabaseError">>, <<"IntegrityError">>,
                       <<"OperationalError">> >>,
     severity   |-> "high",
     fix_template |-> "_get_database_fix"]

authentication_error ==
    [error_type |-> "authentication_error",
     pattern    |-> << <<"AuthenticationFailed">>, <<"PermissionDenied">>,
                       <<"Unauthorized">> >>,
     severity   |-> "medium",
     fix_template |-> "_get_auth_fix"]

validation_error ==
    [error_type |-> "validation_error",
     pattern    |-> << <<"ValidationError">>, <<"Invalid">>,
                       <<"Bad", "Request">> >>,
     severity   |-> "medium",
     fix_template |-> "_get_validation_fix"]

server_error ==
    [error_type |-> "server_error",
     pattern    |-> << <<"500">>, <<"Internal Server Error">>,
                       <<"AttributeError">>, <<"KeyError">> >>,
     severity   |-> "high",
     fix_template |-> "_get_server_error_fix"]

performance_issue ==
    [error_type |-> "performance_issue",
     pattern    |-> << <<"slow query">>, <<"timeout">>, <<"performance">> >>,
     severity   |-> "medium",
     fix_template |-> "_get_performance_fix"]

\* the table with server_error entered first
error_patterns_server_first ==
    << server_error, database_error, authentication_error, validation_error,
       performance_issue >>

\* self.error_patterns, in insertion order
error_patterns ==
    << database_error, authentication_error, validation_error, server_error,
       performance_issue >>

\* a lookup that does not use its key
PatternOfFirst(error_type) == error_patterns[2]

\* self.error_patterns[error_type]
PatternOf(error_type) ==
    error_patterns[CHOOSE i \in 1..Len(error_patterns) :
                       error_patterns[i].error_type = error_type]

-----------------------------------------------------------------------------
(* Regular-expression matching                                             *)

\* the literal p is at s[i:], compared case-insensitively
MatchAt(s, i, p) ==
    /\ i >= 1
    /\ i + Len(p) - 1 <= Len(s)
    /\ \A k \in 1..Len(p) : Fold(CharAt(s, i + k - 1)) = Fold(CharAt(p, k))

\* the literals parts[n..] occur in s in this order from index `from` on
RECURSIVE FindParts(_, _, _, _)
FindParts(s, parts, n, from) ==
    IF n > Len(parts) THEN TRUE
    ELSE \E i \in from..(Len(s) - Len(parts[n]) + 1) :
            /\ MatchAt(s, i, parts[n])
            /\ FindParts(s, parts, n + 1, i + Len(parts[n]))

\* re.search(pattern, message, re.IGNORECASE)
re_search(pattern, message) ==
    \E a \in 1..Len(pattern) : FindParts(message, pattern[a], 1, 1)

\* the loop without the early return: the last matching entry is kept
RECURSIVE DetectLast(_, _)
DetectLast(message, i) ==
    IF i > Len(error_patterns) THEN NoneStr
    ELSE CHOOSE r \in
        {IF later # NoneStr THEN later
         ELSE IF re_search(error_patterns[i].pattern, message)
              THEN error_patterns[i].error_type
              ELSE NoneStr :
         later \in {DetectLast(message, i + 1)}} : TRUE

\* LogMonitor._detect_error_type: the loop over the table from entry i on,
\* returning at the first match
RECURSIVE DetectFrom(_, _)
DetectFrom(message, i) ==
    IF i > Len(error_patterns) THEN NoneStr
    ELSE IF re_search(error_patterns[i].pattern, message)
         THEN error_patterns[i].error_type
         ELSE DetectFrom(message, i + 1)

_detect_error_type(message) == DetectFrom(message, 1)

\* the token path_pattern matches at index i, or NoneStr
PathAt(message, i) ==
    IF CharAt(message, i) \notin PathStartChars THEN NoneStr
    ELSE LET j == SkipWhile(message, i + 1, PathChars)
         IN  IF j + 2 <= Len(message) /\ SubSeq(message, j, j + 2) = ".py"
             THEN SubSeq(message, i, j + 2)
             ELSE NoneStr

\* the search that keeps the rightmost token
_extract_file_path_last(message) ==
    LET starts == {i \in 1..Len(message) : PathAt(message, i) # NoneStr}
    IN  IF starts = {} THEN NoneStr
        ELSE PathAt(message, CHOOSE i \in starts : \A k \in starts : i >= k)

\* LogMonitor._extract_file_path: re.search takes the leftmost match
_extract_file_path(message) ==
    LET starts == {i \in 1..Len(message) : PathAt(message, i) # NoneStr}
    IN  IF starts = {} THEN NoneStr
        ELSE PathAt(message, CHOOSE i \in starts : \A k \in starts : i <= k)

\* log_pattern up to the message group, element by element: a run of one
\* or more characters of a class, or a fixed-format text ("d" is \d)
log_pattern ==
    << [run |-> WordChars],                  \* (\w+)
       [run |-> SpaceChars],                 \* \s+
       [shape |-> "dddd-dd-dd"],             \* \d{4}-\d{2}-\d{2}
       [run |-> SpaceChars],                 \* \s+
       [shape |-> "dd:dd:dd,ddd"],           \* \d{2}:\d{2}:\d{2},\d{3}
       [run |-> SpaceChars],                 \* \s+
       [run |-> WordChars],                  \* (\w+)
       [run |-> SpaceChars],                 \* \s+
       [run |-> DigitChars],                 \* \d+
       [run |-> SpaceChars],                 \* \s+
       [run |-> DigitChars],                 \* \d+
       [run |-> SpaceChars] >>               \* \s+

\* the index after element e matched at index pos of s, or 0 when it does
\* not match there.  Each class is followed by an element that excludes it,
\* so the longest run is the only run the pattern can take.
ElementEnd(s, pos, e) ==
    IF "run" \in DOMAIN e
    THEN LET j == SkipWhile(s, pos, e.run)
         IN  IF j > pos THEN j ELSE 0
    ELSE IF MatchesShape(s, pos, e.shape) THEN pos + Len(e.shape) ELSE 0

\* the indexes after the elements n.. of log_pattern matched from pos on,
\* added to ends; <<>> when one of them does not match
RECURSIVE MatchElements(_, _, _, _)
MatchElements(s, n, pos, ends) ==
    IF n > Len(log_pattern) THEN ends
    ELSE CHOOSE r \in {IF p = 0 THEN <<>>
                       ELSE MatchElements(s, n + 1, p, Append(ends, p)) :
                       p \in {ElementEnd(s, pos, log_pattern[n])}} : TRUE

\* re.match(log_pattern, s): the groups (level, timestamp, module, message)
log_pattern_match(s) ==
    CHOOSE m \in
        {IF ends = <<>> THEN [matched |-> FALSE]
         ELSE [matched   |-> TRUE,
               level     |-> SubSeq(s, 1, ends[1] - 1),
               timestamp |-> SubSeq(s, ends[2], ends[5] - 1),
               module    |-> SubSeq(s, ends[6], ends[7] - 1),
               message   |-> SubSeq(s, ends[12], Len(s))] :
         ends \in {MatchElements(s, 1, 1, <<>>)}} : TRUE

\* the level list with INFO added
ErrorLevelsWithInfo == {"ERROR", "CRITICAL", "WARNING", "INFO"}

\* the levels parse_log_line keeps
ErrorLevels == {"ERROR", "CRITICAL", "WARNING"}

\* the fix methods: each returns its text whatever the message is
_get_database_fix(message) == "# Database Error Fix"

_get_auth_fix(message) == "# Authentication Error Fix"

_get_validation_fix(message) == "# Validation Error Fix"

_get_server_error_fix(message) == "# Server Error Fix"

_get_performance_fix(message) == "# Performance Issue Fix"

\* a template that quotes the message
fix_template_with_message(error_type, message) ==
    "# Fix for " \o message

\* self.error_patterns[error_type]['fix_template'](message)
fix_template(error_type, message) ==
    CHOOSE text \in
        {IF method = "_get_database_fix" THEN _get_database_fix(message)
         ELSE IF method = "_get_auth_fix" THEN _get_auth_fix(message)
         ELSE IF method = "_get_validation_fix"
              THEN _get_validation_fix(message)
         ELSE IF method = "_get_server_error_fix"
              THEN _get_server_error_fix(message)
         ELSE _get_performance_fix(message) :
         method \in {PatternOf(error_type).fix_template}} : TRUE

\* the record with a severity taken from the level of the line
LogErrorOfLevel(match) ==
    IF match.level \notin {"ERROR", "CRITICAL", "WARNING"} THEN NoLogError
    ELSE CHOOSE r \in
        {IF error_type = NoneStr THEN NoLogError
         ELSE [timestamp     |-> match.timestamp,
               level         |-> match.level,
               message       |-> match.message,
               file_path     |-> IF _extract_file_path(match.message) # NoneStr
                                 THEN _extract_file_path(match.message)
                                 ELSE match.module \o ".py",
               line_number   |-> NoneStr,
               error_type    |-> error_type,
               severity      |-> IF match.level = "WARNING" THEN "low"
                                 ELSE "high",
               suggested_fix |-> fix_template(error_type, match.message)] :
         error_type \in {_detect_error_type(match.message)}} : TRUE

\* parse_log_line once log_pattern has matched
LogErrorOf(match) ==
    IF match.level \notin ErrorLevels THEN NoLogError
    ELSE CHOOSE r \in
        {IF error_type = NoneStr THEN NoLogError
         ELSE [timestamp     |-> match.timestamp,
               level         |-> match.level,
               message       |-> match.message,
               file_path     |-> IF _extract_file_path(match.message) # NoneStr
                                 THEN _extract_file_path(match.message)
                                 ELSE match.module \o ".py",
               line_number   |-> NoneStr,
               error_type    |-> error_type,
               severity      |-> PatternOf(error_type).severity,
               suggested_fix |-> fix_template(error_type, match.message)] :
         error_type \in {_detect_error_type(match.message)}} : TRUE

\* LogMonitor.parse_log_line
parse_log_line(raw) ==
    CHOOSE r \in
        {IF ~match.matched THEN NoLogError ELSE LogErrorOf(match) :
         match \in {log_pattern_match(s) : s \in {strip(raw)}}} : TRUE

-----------------------------------------------------------------------------
(* Bounds of the model                                                     *)

\* lines an editor of the log appends before the log is cleared
MaxLines == 2

\* simulate_errors runs while the log holds at most this many lines after it
MaxLogLen == 5

\* string hashes are taken modulo HashModulus (2^64 in CPython)
HashModulus == 7

-----------------------------------------------------------------------------
(* Program constants                                                       *)

\* error.message[:100]
PrefixLen == 100

\* default_config["max_errors_per_batch"]
max_errors_per_batch == 10

-----------------------------------------------------------------------------
(* The log lines the model writes                                          *)

\* the first characters of two long messages that differ only after them
LongPrefix ==
    "DatabaseError: UNIQUE constraint failed: clients_client.email while saving the membership renewal form "

LineA1 ==
    "ERROR 2024-01-15 10:30:45,123 views 12345 67890 " \o LongPrefix
        \o "(first attempt)"

LineA2 ==
    "CRITICAL 2024-01-16 08:00:01,456 views 222 333 " \o LongPrefix
        \o "(retry 2, gave up)"

LineB ==
    "WARNING 2024-01-15 10:31:00,789 security 12345 67890 PermissionDenied: User does not have permission to access /admin/"

\* the message of LineB from another module
LineC ==
    "ERROR 2024-01-15 10:31:00,789 views 12345 67890 PermissionDenied: User does not have permission to access /admin/"

\* an error text at a level the monitor ignores
LineD ==
    "INFO 2024-01-15 10:32:10,001 views 12345 67890 DatabaseError: UNIQUE constraint failed"

\* kind and path of LineB, another message
LineF ==
    "  WARNING 2024-01-15 10:33:20,002 security 12345 67890 PermissionDenied: staff only"

\* a line whose bytes are not UTF-8: reading it raises UnicodeDecodeError
InvalidUtf8 == "\\xff\\xfe"

LineCatalogue == {LineA1, LineA2, LineB, LineC, LineD, LineF, InvalidUtf8}

\* datetime.now().strftime('%Y-%m-%d %H:%M:%S')
NowChoices == {"2024-01-15 10:30:45"}

\* LogMonitorAutomation.simulate_errors: test_errors
test_errors(now) ==
    << "ERROR " \o now \o ",123 django.db.backends 12345 67890 DatabaseError: UNIQUE constraint failed: clients_client.email",
       "ERROR " \o now \o ",456 django.request 12345 67890 Internal Server Error: AttributeError: 'NoneType' object has no attribute 'gym'",
       "WARNING " \o now \o ",789 django.security 12345 67890 PermissionDenied: User does not have permission to access /admin/",
       "ERROR " \o now \o ",012 django.request 12345 67890 ValidationError: Invalid membership plan selected",
       "WARNING " \o now \o ",345 django.db 12345 67890 Slow query detected: SELECT * FROM clients_client took 2.5 seconds" >>

Range(seq) == {seq[i] : i \in DOMAIN seq}

\* the lines of a log longer than one batch
MaxBatchLines == 12

\* the k-th line of that log: each names a file of its own
BatchLine(k) ==
    "ERROR 2024-01-15 10:30:45,123 views 12345 67890 Internal Server Error in app/m"
        \o ToString(k) \o ".py"

LogLineUniverse ==
    LineCatalogue \cup UNION {Range(test_errors(now)) : now \in NowChoices}
        \cup {BatchLine(k) : k \in 1..MaxBatchLines}

\* `for line in f` yields each line with its newline
ReadLine(l) == l \o "\n"

\* parse_log_line of every line the model writes, computed once
ParsedLine == [l \in LogLineUniverse |-> parse_log_line(ReadLine(l))]

ClassifiedRecords == {ParsedLine[l] : l \in LogLineUniverse} \ {NoLogError}

-----------------------------------------------------------------------------
(* hash() of a string and the error signature                              *)

\* the hash keys a process may be started with (PYTHONHASHSEED)
HashSeeds == {0, 1}

Charset ==
    " abcdefghijklmnopqrstuvwxyz0123456789ABCDEFGHIJKLMNOPQRSTUVWXYZ_.,:;/'-+=*()!?@#%&<>[]{}|~^$"

CharCodeTable ==
    [c \in Chars(Charset) |->
        CHOOSE i \in 1..Len(Charset) : CharAt(Charset, i) = c]

CharCode(c) == IF c \in DOMAIN CharCodeTable THEN CharCodeTable[c] ELSE 0

\* the keyed sum of the characters lo..hi of s
RECURSIVE HashSum(_, _, _, _)
HashSum(s, seed, lo, hi) ==
    IF lo > hi THEN 0
    ELSE IF lo = hi THEN CharCode(CharAt(s, lo)) * (lo + seed)
    ELSE LET mid == (lo + hi) \div 2
         IN  HashSum(s, seed, lo, mid) + HashSum(s, seed, mid + 1, hi)

\* hash(s) in a process whose hash key is seed: a function of the characters
\* and the key onto a bounded range, so unequal strings can hash alike
Hash(s, seed) == HashSum(s, seed, 1, Len(s)) % HashModulus

\* s[:n]
Prefix(s, n) == SubSeq(s, 1, IF Len(s) < n THEN Len(s) ELSE n)

\* the signature without the kind and the path
create_error_signature_hash_only(error, seed) ==
    ToString(Hash(Prefix(error.message, PrefixLen), seed))

\* the signature with the hash of the whole message
create_error_signature_whole(error, seed) ==
    error.error_type \o ":" \o error.file_path \o ":"
        \o ToString(Hash(error.message, seed))

\* LogMonitor.create_error_signature
create_error_signature(error, seed) ==
    error.error_type \o ":" \o error.file_path \o ":"
        \o ToString(Hash(Prefix(error.message, PrefixLen), seed))

\* hash(error.message[:100]) of every record, computed once
HashOf ==
    [seed \in HashSeeds |->
        [error \in ClassifiedRecords |->
            Hash(Prefix(error.message, PrefixLen), seed)]]

\* create_error_signature of every record, computed once
SignatureOf ==
    [seed \in HashSeeds |->
        [error \in ClassifiedRecords |-> create_error_signature(error, seed)]]

-----------------------------------------------------------------------------
(* LogMonitor.monitor_logs(follow=False)                                   *)

\* the loop without the membership test: every classified line is appended
RECURSIVE ScanLoopNoTest(_, _, _, _, _)
ScanLoopNoTest(lines, i, acc, seen, seed) ==
    IF i > Len(lines) THEN [errors |-> acc, processed_errors |-> seen]
    ELSE LET error == ParsedLine[lines[i]]
         IN  IF error = NoLogError
             THEN ScanLoopNoTest(lines, i + 1, acc, seen, seed)
             ELSE ScanLoopNoTest(lines, i + 1, Append(acc, error),
                                 seen \cup {SignatureOf[seed][error]}, seed)

\* the loop that marks every line it has read as processed
RECURSIVE ScanLoopMarksAll(_, _, _, _, _)
ScanLoopMarksAll(lines, i, acc, seen, seed) ==
    IF i > Len(lines) THEN [errors |-> acc, processed_errors |-> seen]
    ELSE LET error == ParsedLine[lines[i]]
         IN  IF error = NoLogError
             THEN ScanLoopMarksAll(lines, i + 1, acc, seen \cup {lines[i]},
                                   seed)
             ELSE LET signature == SignatureOf[seed][error]
                  IN  IF signature \notin seen
                      THEN ScanLoopMarksAll(lines, i + 1, Append(acc, error),
                                            seen \cup {signature}, seed)
                      ELSE ScanLoopMarksAll(lines, i + 1, acc, seen, seed)

\* the loop that puts each new record at the head of the list
RECURSIVE ScanLoopPrepend(_, _, _, _, _)
ScanLoopPrepend(lines, i, acc, seen, seed) ==
    IF i > Len(lines) THEN [errors |-> acc, processed_errors |-> seen]
    ELSE LET error == ParsedLine[lines[i]]
         IN  IF error = NoLogError
             THEN ScanLoopPrepend(lines, i + 1, acc, seen, seed)
             ELSE LET signature == SignatureOf[seed][error]
                  IN  IF signature \notin seen
                      THEN ScanLoopPrepend(lines, i + 1, <<error>> \o acc,
                                           seen \cup {signature}, seed)
                      ELSE ScanLoopPrepend(lines, i + 1, acc, seen, seed)

\* the one-time scan: the loop over the lines from line i on
RECURSIVE ScanLoop(_, _, _, _, _)
ScanLoop(lines, i, acc, seen, seed) ==
    IF i > Len(lines) THEN [errors |-> acc, processed_errors |-> seen]
    ELSE LET error == ParsedLine[lines[i]]
         IN  IF error = NoLogError
             THEN ScanLoop(lines, i + 1, acc, seen, seed)
             ELSE LET signature == SignatureOf[seed][error]
                  IN  IF signature \notin seen
                      THEN ScanLoop(lines, i + 1, Append(acc, error),
                                    seen \cup {signature}, seed)
                      ELSE ScanLoop(lines, i + 1, acc, seen, seed)

\* the number of times each record occurs in a list
SeqToBag(seq) ==
    [e \in Range(seq) |-> Cardinality({i \in DOMAIN seq : seq[i] = e})]

\* the lines that cannot be decoded
BadLines(lines) == {i \in DOMAIN lines : lines[i] = InvalidUtf8}

\* the call returns the list found
Returns(found, seen) ==
    /\ outcome' = "returned"
    /\ errors' = found
    /\ processed_errors' = seen
    /\ returned' = returned (+) SeqToBag(found)

\* the call ends with an exception: the list it built is lost
Raises(exception, seen) ==
    /\ outcome' = exception
    /\ errors' = <<>>
    /\ processed_errors' = seen
    /\ returned' = returned

\* open() without the exists() test before it
LogNotFoundRaises == Raises("FileNotFoundError", processed_errors)

\* `if not self.log_file_path.exists()`: the message is printed and the
\* empty list returned
LogNotFound == Returns(<<>>, processed_errors)

\* one call on a log that is in the state (exists, readable, lines) when the
\* call starts
monitor_logs(exists, readable, lines) ==
    /\ seen_before' = processed_errors
    /\ hash_seed' = hash_seed
    /\ \/ \* the log file is not there
          /\ ~exists
          /\ LogNotFound
          /\ log_exists' = exists /\ log_readable' = readable
          /\ log_lines' = lines
          /\ scans_of_file' = IF scans_of_file = 0 THEN 1 ELSE 2
       \/ \* the file is removed after exists() and before open()
          /\ exists
          /\ Raises("FileNotFoundError", processed_errors)
          /\ log_exists' = FALSE /\ log_readable' = FALSE
          /\ log_lines' = <<>>
          /\ scans_of_file' = 0
       \/ \* open() is refused
          /\ exists /\ ~readable
          /\ Raises("PermissionError", processed_errors)
          /\ log_exists' = exists /\ log_readable' = readable
          /\ log_lines' = lines
          /\ scans_of_file' = IF scans_of_file = 0 THEN 1 ELSE 2
       \/ \* the loop reads every line
          /\ exists /\ readable /\ BadLines(lines) = {}
          /\ LET scan == ScanLoop(lines, 1, <<>>, processed_errors, hash_seed)
             IN  Returns(scan.errors, scan.processed_errors)
          /\ log_exists' = exists /\ log_readable' = readable
          /\ log_lines' = lines
          /\ scans_of_file' = IF scans_of_file = 0 THEN 1 ELSE 2
       \/ \* the decoder fails on a block of the file: the k lines of the
          \* blocks before it have been through the loop
          /\ exists /\ readable /\ BadLines(lines) # {}
          /\ \E k \in 0..(Len(lines) - 1) :
                /\ \A b \in BadLines(lines) : k < b
                /\ LET scan == ScanLoop(SubSeq(lines, 1, k), 1, <<>>,
                                        processed_errors, hash_seed)
                   IN  Raises("UnicodeDecodeError", scan.processed_errors)
          /\ log_exists' = exists /\ log_readable' = readable
          /\ log_lines' = lines
          /\ scans_of_file' = IF scans_of_file = 0 THEN 1 ELSE 2

-----------------------------------------------------------------------------
(* GitHubIntegrator: the issue and pull request payloads                   *)

UpperTable ==
    [c \in LowerChars |->
        CharAt(UpperAlphabet,
               CHOOSE i \in 1..Len(LowerAlphabet) : CharAt(LowerAlphabet, i) = c)]

\* str.replace(old, new) from index i on
RECURSIVE ReplaceFrom(_, _, _, _)
ReplaceFrom(s, old, new, i) ==
    IF i > Len(s) THEN ""
    ELSE IF i + Len(old) - 1 <= Len(s) /\ SubSeq(s, i, i + Len(old) - 1) = old
    THEN new \o ReplaceFrom(s, old, new, i + Len(old))
    ELSE CharAt(s, i) \o ReplaceFrom(s, old, new, i + 1)

replace(s, old, new) == ReplaceFrom(s, old, new, 1)

\* str.title() from index i on: a letter after a letter is put in lower
\* case, any other letter in upper case
RECURSIVE TitleFrom(_, _)
TitleFrom(s, i) ==
    IF i > Len(s) THEN ""
    ELSE CHOOSE t \in
        {(IF c \notin UpperChars \cup LowerChars THEN c
          ELSE IF i > 1 /\ CharAt(s, i - 1) \in UpperChars \cup LowerChars
          THEN Fold(c)
          ELSE IF c \in LowerChars THEN UpperTable[c] ELSE c)
            \o TitleFrom(s, i + 1) : c \in {CharAt(s, i)}} : TRUE

title(s) == TitleFrom(s, 1)

\* the labels of an issue
LabelsOf(error_type) ==
    <<"automated", "bug">> \o
    (IF error_type \in {"database_error", "server_error"}
     THEN <<"critical", "high-priority">>
     ELSE IF error_type = "performance_issue"
     THEN <<"performance", "optimization">>
     ELSE IF error_type = "authentication_error"
     THEN <<"security", "auth">>
     ELSE <<>>)

\* GitHubIntegrator.create_issue_from_error; the title is the text after
\* its leading sign, the body is the values put into its text
create_issue_from_error(error, now) ==
    [title     |-> title(replace(error.error_type, "_", " ")) \o ": "
                      \o error.file_path,
     body      |-> [error_type |-> error.error_type,
                    severity |-> error.severity,
                    file_path |-> error.file_path,
                    timestamp |-> error.timestamp,
                    message |-> error.message,
                    suggested_fix |-> error.suggested_fix,
                    level |-> error.level,
                    detection_time |-> now],
     labels    |-> LabelsOf(error.error_type),
     assignees |-> <<>>]

\* a pull request whose branch is named after the record's message as well
create_pr_from_error_per_record(error, issue_number) ==
    CHOOSE data \in
        {[branch |-> branch_name,
          title  |-> "Fix: " \o title(replace(error.error_type, "_", " "))
                        \o " in " \o error.file_path,
          body   |-> [issue_number |-> issue_number,
                      error_type |-> error.error_type,
                      file_path |-> error.file_path,
                      timestamp |-> error.timestamp,
                      message |-> Prefix(error.message, 200) \o "...",
                      severity |-> error.severity,
                      suggested_fix |-> error.suggested_fix],
          head   |-> branch_name,
          base   |-> "main"] :
         branch_name \in
            {"fix/" \o error.error_type \o "-"
                \o replace(replace(error.file_path, "/", "-"), ".py", "")
                \o "-" \o ToString(issue_number)
                \o "-" \o ToString(Len(error.message))}} : TRUE

\* GitHubIntegrator.create_pr_from_error, title and body as above
create_pr_from_error(error, issue_number) ==
    CHOOSE data \in
        {[branch |-> branch_name,
          title  |-> "Fix: " \o title(replace(error.error_type, "_", " "))
                        \o " in " \o error.file_path,
          body   |-> [issue_number |-> issue_number,
                      error_type |-> error.error_type,
                      file_path |-> error.file_path,
                      timestamp |-> error.timestamp,
                      message |-> Prefix(error.message, 200) \o "...",
                      severity |-> error.severity,
                      suggested_fix |-> error.suggested_fix],
          head   |-> branch_name,
          base   |-> "main"] :
         branch_name \in
            {"fix/" \o error.error_type \o "-"
                \o replace(replace(error.file_path, "/", "-"), ".py", "")
                \o "-" \o ToString(issue_number)}} : TRUE

-----------------------------------------------------------------------------
(* The commands of automation.py                                           *)

NoReport == [command |-> "none", status |-> "none", found |-> 0, processed |-> 0]

\* what the loop of scan_logs holds for one record of the batch: the payloads
\* built, none when an Exception was raised in building them
Payload(error, fails, now) ==
    IF fails
    THEN [error |-> error, issue |-> <<>>, pr |-> <<>>]
    ELSE [error |-> error,
          issue |-> <<create_issue_from_error(error, now)>>,
          pr |-> <<create_pr_from_error(error, 999)>>]


\* the list without the limit
BatchAll(found) == found

\* errors[:max_batch]
Batch(found) ==
    IF Len(found) > max_errors_per_batch
    THEN SubSeq(found, 1, max_errors_per_batch)
    ELSE found

\* LogMonitorAutomation.scan_logs: what it prints for the call's result,
\* `failed` of the batch having raised an Exception in the loop
ScanReport(how, found, failed) ==
    IF how # "returned"
    THEN [command |-> "scan", status |-> "Scan failed", found |-> 0,
          processed |-> 0]
    ELSE IF found = <<>>
    THEN [command |-> "scan", status |-> "No errors found", found |-> 0,
          processed |-> 0]
    ELSE [command |-> "scan", status |-> "errors processed",
          found |-> Len(found), processed |-> Len(Batch(found)) - failed]

\* the loop of scan_logs over the batch, the records at `failed` raising an
\* Exception that the inner handler catches: the loop goes on
ProcessBatch(batch, failed) ==
    /\ \E now \in NowChoices :
          payloads' = [i \in DOMAIN batch |->
                          Payload(batch[i], i \in failed, now)]
    /\ processed_records' = processed_records
          \cup {batch[i] : i \in (DOMAIN batch) \ failed}
    /\ faults' = faults - Cardinality(failed)

\* no call made yet
NoScan == [made |-> FALSE, file_same |-> FALSE, errors |-> <<>>]

\* a call was made and the log has changed since
StaleScan == [made |-> TRUE, file_same |-> FALSE, errors |-> <<>>]

\* the record of the first call of the instance: kept once made; a call in
\* which the file was removed leaves no record of an unchanged log
FirstScanRecorded ==
    /\ first_scan' =
          IF first_scan.made
          THEN (IF log_exists' = log_exists THEN first_scan ELSE StaleScan)
          ELSE IF log_exists' = log_exists
               THEN [made |-> TRUE, file_same |-> TRUE, errors |-> errors']
               ELSE StaleScan
    /\ previous_first' =
          IF log_exists' = log_exists THEN previous_first ELSE NoScan

\* scan_logs from its first line to its last, nothing interrupting it
ScanLogsCall ==
    /\ monitor_logs(log_exists, log_readable, log_lines)
    /\ \E failed \in {{}} \cup (IF faults > 0
                               THEN {{i} : i \in DOMAIN Batch(errors')}
                               ELSE {}) :
          /\ ProcessBatch(Batch(errors'), failed)
          /\ scan_report' = ScanReport(outcome', errors', Cardinality(failed))
    /\ cut_off' = cut_off \cup
          {errors'[i] : i \in (max_errors_per_batch + 1)..Len(errors')}
    /\ status_found' = status_found
    /\ FirstScanRecorded

\* LogMonitorAutomation.scan_logs, run as the scan command
scan_logs ==
    /\ monitor_pc = "off"
    /\ ScanLogsCall
    /\ UNCHANGED <<classifier_vars, side_vars, monitor_vars, integrator_vars>>

\* what a change of the log does to the record of the last call
LogChanged ==
    /\ outcome' = "none"
    /\ errors' = <<>>
    /\ seen_before' = {}
    /\ scans_of_file' = 0
    /\ scan_report' = NoReport
    /\ first_scan' = (IF first_scan.made THEN StaleScan ELSE NoScan)
    /\ previous_first' = NoScan
    /\ payloads' = <<>>
    /\ UNCHANGED <<hash_seed, processed_errors, returned>>
    /\ UNCHANGED <<processed_records, cut_off, status_found, faults>>
    /\ UNCHANGED <<classifier_vars, side_vars, monitor_vars, integrator_vars>>

\* LogMonitorAutomation.simulate_errors: appends, creating the file
simulate_errors ==
    /\ Len(log_lines) + 5 <= MaxLogLen
    /\ \E now \in NowChoices :
          log_lines' = (IF log_exists THEN log_lines ELSE <<>>)
                          \o test_errors(now)
    /\ log_exists' = TRUE
    /\ log_readable' = (IF log_exists THEN log_readable ELSE TRUE)
    /\ LogChanged

-----------------------------------------------------------------------------
(* The application and the operator, who write the log                     *)

\* the application opens its log: an empty file
CreateLog ==
    /\ ~log_exists
    /\ log_exists' = TRUE
    /\ log_readable' = TRUE
    /\ log_lines' = <<>>
    /\ LogChanged

AppendLine ==
    /\ log_exists
    /\ Len(log_lines) < MaxLines
    /\ \E l \in LineCatalogue : log_lines' = Append(log_lines, l)
    /\ UNCHANGED <<log_exists, log_readable>>
    /\ LogChanged

\* rotation or truncation: the file is emptied
TruncateLog ==
    /\ log_exists
    /\ log_lines # <<>>
    /\ log_lines' = <<>>
    /\ UNCHANGED <<log_exists, log_readable>>
    /\ LogChanged

RemoveLog ==
    /\ log_exists
    /\ log_exists' = FALSE
    /\ log_readable' = FALSE
    /\ log_lines' = <<>>
    /\ LogChanged

\* chmod: read permission is taken away or given back
ChmodLog ==
    /\ log_exists
    /\ log_readable' = ~log_readable
    /\ UNCHANGED <<log_exists, log_lines>>
    /\ LogChanged

\* a new process whose LogMonitor reads processed_errors back
RestartKeepsSeen ==
    /\ processed_errors # {} \/ outcome # "none"
    /\ \E seed \in HashSeeds : hash_seed' = seed
    /\ processed_errors' = processed_errors
    /\ returned' = EmptyBag
    /\ outcome' = "none"
    /\ errors' = <<>>
    /\ seen_before' = {}
    /\ scans_of_file' = 0
    /\ scan_report' = NoReport
    /\ previous_first' = first_scan
    /\ first_scan' = NoScan
    /\ payloads' = <<>>
    /\ processed_records' = {}
    /\ cut_off' = {}
    /\ status_found' = {}
    /\ UNCHANGED <<log_exists, log_readable, log_lines, faults>>
    /\ UNCHANGED <<classifier_vars, side_vars, monitor_vars, integrator_vars>>

\* the process ends and a new one builds a new LogMonitor
Restart ==
    /\ processed_errors # {} \/ outcome # "none"
    /\ \E seed \in HashSeeds : hash_seed' = seed
    /\ processed_errors' = {}
    /\ returned' = EmptyBag
    /\ outcome' = "none"
    /\ errors' = <<>>
    /\ seen_before' = {}
    /\ scans_of_file' = 0
    /\ scan_report' = NoReport
    /\ previous_first' = first_scan
    /\ first_scan' = NoScan
    /\ payloads' = <<>>
    /\ processed_records' = {}
    /\ cut_off' = {}
    /\ status_found' = {}
    /\ UNCHANGED <<log_exists, log_readable, log_lines, faults>>
    /\ UNCHANGED <<classifier_vars, side_vars, monitor_vars, integrator_vars>>

\* no KeyboardInterrupt so far
NotInterrupted ==
    [in |-> "none", lines_read |-> 0, lines_unread |-> 0, found |-> 0,
     processed |-> 0]

\* no record passed to the integrator
NoError == [none |-> TRUE]

\* nothing processed, no thread in monitor_logs, no follow mode, no batch
\* passed, no configuration loaded
SidesAtRest ==
    /\ payloads = <<>>
    /\ processed_records = {}
    /\ cut_off = {}
    /\ status_found = {}
    /\ thread_pc = [t \in {1, 2} |-> "idle"]
    /\ thread_pos = [t \in {1, 2} |-> 0]
    /\ thread_errors = [t \in {1, 2} |-> <<>>]
    /\ overlapped = FALSE
    /\ follow_pc = "off"
    /\ follow_pos = 0
    /\ follow_errors = <<>>
    /\ batch_input = <<>>
    /\ batch_results = <<>>
    /\ config_file = [state |-> "missing", keys |-> {}, by |-> "none"]
    /\ config = <<>>

\* the state of the parts that have not run
PartsAtRest ==
    /\ first_scan = NoScan
    /\ previous_first = NoScan
    /\ monitor_pc = "off"
    /\ interrupted = NotInterrupted
    /\ error_arg = NoError
    /\ issue_data = <<>>
    /\ pr_data = <<>>
    /\ created_issues = <<>>
    /\ SidesAtRest

\* no classifier input
NoFields ==
    [prefix |-> "", level |-> "", stamp |-> "", module |-> "", ids |-> "",
     message |-> ""]

Init ==
    /\ log_exists = FALSE
    /\ log_readable = FALSE
    /\ log_lines = <<>>
    /\ hash_seed \in HashSeeds
    /\ processed_errors = {}
    /\ outcome = "none"
    /\ errors = <<>>
    /\ returned = EmptyBag
    /\ seen_before = {}
    /\ scans_of_file = 0
    /\ scan_report = NoReport
    /\ fields = NoFields
    /\ line = ""
    /\ parsed = <<>>
    /\ detected = <<>>
    /\ faults = 0
    /\ PartsAtRest

Next ==
    \/ simulate_errors
    \/ scan_logs
    \/ CreateLog
    \/ AppendLine
    \/ TruncateLog
    \/ RemoveLog
    \/ ChmodLog
    \/ Restart

Spec == Init /\ [][Next]_vars

-----------------------------------------------------------------------------
(* scan_logs on a log that grows past the size of one batch                *)

InitBatch ==
    /\ log_exists = TRUE
    /\ log_readable = TRUE
    /\ log_lines = <<>>
    /\ hash_seed \in HashSeeds
    /\ processed_errors = {}
    /\ outcome = "none"
    /\ errors = <<>>
    /\ returned = EmptyBag
    /\ seen_before = {}
    /\ scans_of_file = 0
    /\ scan_report = NoReport
    /\ fields = NoFields
    /\ line = ""
    /\ parsed = <<>>
    /\ detected = <<>>
    /\ faults = 0
    /\ PartsAtRest

\* the application logs one more error
AppendBatchLine ==
    /\ Len(log_lines) < MaxBatchLines
    /\ log_lines' = Append(log_lines, BatchLine(Len(log_lines) + 1))
    /\ UNCHANGED <<log_exists, log_readable>>
    /\ LogChanged

NextBatch ==
    \/ scan_logs
    \/ AppendBatchLine

SpecBatch == InitBatch /\ [][NextBatch]_vars

-----------------------------------------------------------------------------
(* The setup and status commands: each tests the monitor with a scan       *)

\* a test scan whose records are processed as scan_logs processes them
StatusScanWithPayloads(exists, readable, lines, command) ==
    /\ monitor_logs(exists, readable, lines)
    /\ status_found' = status_found \cup Range(errors')
    /\ scan_report' =
          [command |-> command,
           status |-> (IF outcome' = "returned" THEN "found" ELSE "failed"),
           found |-> Len(errors'), processed |-> Len(Batch(errors'))]
    /\ ProcessBatch(Batch(errors'), {})
    /\ cut_off' = cut_off
    /\ FirstScanRecorded

\* `errors = self.log_monitor.monitor_logs(follow=False)` in try / except
\* Exception, on a log in the state (exists, readable, lines): the number
\* found or the failure is printed, no payload is built
StatusScan(exists, readable, lines, command) ==
    /\ monitor_logs(exists, readable, lines)
    /\ status_found' = status_found \cup Range(errors')
    /\ scan_report' =
          [command |-> command,
           status |-> (IF outcome' = "returned" THEN "found" ELSE "failed"),
           found |-> Len(errors'), processed |-> 0]
    /\ UNCHANGED <<payloads, processed_records, cut_off, faults>>
    /\ FirstScanRecorded

\* LogMonitorAutomation.setup: a missing log is created empty by touch(),
\* then the monitor is tested
setup ==
    /\ monitor_pc = "off"
    /\ IF log_exists
       THEN StatusScan(TRUE, log_readable, log_lines, "setup")
       ELSE StatusScan(TRUE, TRUE, <<>>, "setup")
    /\ UNCHANGED <<classifier_vars, side_vars, monitor_vars, integrator_vars>>

\* LogMonitorAutomation.show_status
show_status ==
    /\ monitor_pc = "off"
    /\ StatusScan(log_exists, log_readable, log_lines, "status")
    /\ UNCHANGED <<classifier_vars, side_vars, monitor_vars, integrator_vars>>

\* a LogMonitorAutomation is built when the application has written its log
InitStatus ==
    /\ log_exists \in BOOLEAN
    /\ log_readable = log_exists
    /\ log_lines \in UNION {[1..n -> LineCatalogue] : n \in 0..MaxLines}
    /\ ~log_exists => log_lines = <<>>
    /\ hash_seed \in HashSeeds
    /\ processed_errors = {}
    /\ outcome = "none"
    /\ errors = <<>>
    /\ returned = EmptyBag
    /\ seen_before = {}
    /\ scans_of_file = 0
    /\ scan_report = NoReport
    /\ fields = NoFields
    /\ line = ""
    /\ parsed = <<>>
    /\ detected = <<>>
    /\ faults = 0
    /\ PartsAtRest

\* setup, show_status and scan_logs are called on the instance; the log is
\* removed or its permissions change between the calls
NextStatus ==
    \/ setup
    \/ show_status
    \/ scan_logs
    \/ RemoveLog
    \/ ChmodLog

SpecStatus == InitStatus /\ [][NextStatus]_vars

-----------------------------------------------------------------------------
(* LogMonitor.monitor_logs(follow=True)                                    *)

\* what a call of monitor_logs that has not returned leaves as it is: the
\* file, the results of the calls that returned, and the other components
call_frame ==
    <<log_exists, log_readable, log_lines, hash_seed, outcome, errors,
      returned, seen_before, scans_of_file, scan_report, classifier_vars,
      history_vars, monitor_vars, integrator_vars, payload_vars, batch_input,
      batch_results, config_file, config>>

\* the call: a missing file returns the empty list; open() may be refused;
\* else f.seek(0, 2) puts the position behind the lines the file holds
FollowStart ==
    /\ follow_pc = "off"
    /\ follow_pc' = (IF ~log_exists THEN "not found"
                     ELSE IF ~log_readable THEN "PermissionError"
                     ELSE "loop")
    /\ follow_pos' = Len(log_lines)
    /\ follow_errors' = <<>>
    /\ UNCHANGED <<processed_errors, call_frame, thread_pc, thread_pos,
                   thread_errors, overlapped>>

\* f.readline() gives a line: it goes through the body of the loop; bytes
\* that are not UTF-8 raise out of the loop
FollowRead ==
    /\ follow_pc \in {"loop", "sleep"}
    /\ follow_pos < Len(log_lines)
    /\ follow_pos' = follow_pos + 1
    /\ IF log_lines[follow_pos + 1] = InvalidUtf8
       THEN /\ follow_pc' = "UnicodeDecodeError"
            /\ UNCHANGED <<follow_errors, processed_errors>>
       ELSE /\ follow_pc' = "loop"
            /\ LET scan == ScanLoop(<<log_lines[follow_pos + 1]>>, 1,
                                    follow_errors, processed_errors,
                                    hash_seed)
               IN  /\ follow_errors' = scan.errors
                   /\ processed_errors' = scan.processed_errors
    /\ UNCHANGED <<call_frame, thread_pc, thread_pos, thread_errors,
                   overlapped>>

\* a loop that ends at the end of the file and returns what it collected
FollowReturnsAtEnd ==
    /\ follow_pc = "loop"
    /\ follow_pos >= Len(log_lines)
    /\ follow_pc' = "returned"
    /\ UNCHANGED <<follow_pos, follow_errors, processed_errors, call_frame,
                   thread_pc, thread_pos, thread_errors, overlapped>>

\* f.readline() gives '': time.sleep(1), then the loop goes on
FollowSleep ==
    /\ follow_pc = "loop"
    /\ follow_pos >= Len(log_lines)
    /\ follow_pc' = "sleep"
    /\ UNCHANGED <<follow_pos, follow_errors, processed_errors, call_frame,
                   thread_pc, thread_pos, thread_errors, overlapped>>

\* one call of monitor_logs(follow=True) while the application writes
SpecFollow ==
    Init /\ [][FollowStart \/ FollowRead \/ FollowSleep \/ CreateLog
                 \/ AppendLine \/ ChmodLog]_vars

-----------------------------------------------------------------------------
(* Two threads calling monitor_logs(follow=False) of one LogMonitor: the   *)
(* test `signature not in self.processed_errors` and the two statements    *)
(* under it are separate steps, and no lock is held                        *)

\* thread t enters the call and opens the file
ThreadStart(t) ==
    /\ thread_pc[t] = "idle"
    /\ log_exists /\ log_readable
    /\ thread_pc' = [thread_pc EXCEPT ![t] = "test"]
    /\ overlapped' =
          (overlapped \/ \E u \in DOMAIN thread_pc :
                             u # t /\ thread_pc[u] \in {"test", "append"})
    /\ UNCHANGED <<thread_pos, thread_errors, processed_errors, call_frame,
                   follow_pc, follow_pos, follow_errors>>

\* a loop that appends whatever it classifies
ThreadAppendsUntested(t) ==
    /\ thread_pc[t] = "test"
    /\ IF thread_pos[t] >= Len(log_lines)
       THEN /\ thread_pc' = [thread_pc EXCEPT ![t] = "returned"]
            /\ UNCHANGED thread_pos
       ELSE IF log_lines[thread_pos[t] + 1] = InvalidUtf8
       THEN /\ thread_pc' = [thread_pc EXCEPT ![t] = "UnicodeDecodeError"]
            /\ UNCHANGED thread_pos
       ELSE IF ParsedLine[log_lines[thread_pos[t] + 1]] = NoLogError
       THEN /\ thread_pos' = [thread_pos EXCEPT ![t] = @ + 1]
            /\ UNCHANGED thread_pc
       ELSE /\ thread_pc' = [thread_pc EXCEPT ![t] = "append"]
            /\ UNCHANGED thread_pos
    /\ UNCHANGED <<thread_errors, overlapped, processed_errors, call_frame,
                   follow_pc, follow_pos, follow_errors>>

\* thread t takes the next line: at the end of the file it returns its
\* list; a line that is no error, or whose signature is in the set, is
\* passed over; else the test has succeeded and the thread is before
\* errors.append
ThreadTest(t) ==
    /\ thread_pc[t] = "test"
    /\ IF thread_pos[t] >= Len(log_lines)
       THEN /\ thread_pc' = [thread_pc EXCEPT ![t] = "returned"]
            /\ UNCHANGED thread_pos
       ELSE IF log_lines[thread_pos[t] + 1] = InvalidUtf8
       THEN /\ thread_pc' = [thread_pc EXCEPT ![t] = "UnicodeDecodeError"]
            /\ UNCHANGED thread_pos
       ELSE IF \/ ParsedLine[log_lines[thread_pos[t] + 1]] = NoLogError
               \/ SignatureOf[hash_seed][
                     ParsedLine[log_lines[thread_pos[t] + 1]]]
                        \in processed_errors
       THEN /\ thread_pos' = [thread_pos EXCEPT ![t] = @ + 1]
            /\ UNCHANGED thread_pc
       ELSE /\ thread_pc' = [thread_pc EXCEPT ![t] = "append"]
            /\ UNCHANGED thread_pos
    /\ UNCHANGED <<thread_errors, overlapped, processed_errors, call_frame,
                   follow_pc, follow_pos, follow_errors>>

\* errors.append(error); self.processed_errors.add(signature)
ThreadAppend(t) ==
    /\ thread_pc[t] = "append"
    /\ LET error == ParsedLine[log_lines[thread_pos[t] + 1]]
       IN  /\ thread_errors' =
                 [thread_errors EXCEPT ![t] = Append(@, error)]
           /\ processed_errors' = processed_errors
                 \cup {SignatureOf[hash_seed][error]}
    /\ thread_pos' = [thread_pos EXCEPT ![t] = @ + 1]
    /\ thread_pc' = [thread_pc EXCEPT ![t] = "test"]
    /\ UNCHANGED <<overlapped, call_frame, follow_pc, follow_pos,
                   follow_errors>>

\* each thread makes one call while the application writes the log
SpecThreads ==
    Init /\ [][\/ \E t \in DOMAIN thread_pc :
                     ThreadStart(t) \/ ThreadTest(t) \/ ThreadAppend(t)
                \/ CreateLog
                \/ AppendLine]_vars

-----------------------------------------------------------------------------
(* The monitor command: LogMonitorAutomation.monitor_continuous            *)

\* what is printed when the loop is left on KeyboardInterrupt
StoppedReport(found, processed) ==
    [command |-> "monitor", status |-> "Monitoring stopped by user",
     found |-> found, processed |-> processed]

\* the command starts: the loop is entered
monitor_continuous ==
    /\ monitor_pc = "off"
    /\ monitor_pc' = "scan"
    /\ UNCHANGED <<scanner_vars, classifier_vars, side_vars, history_vars, interrupted,
                   integrator_vars, payload_vars>>

\* a loop that an Exception raised in the scan leaves
MonitorScanUncaught ==
    /\ monitor_pc = "scan"
    /\ ScanLogsCall
    /\ monitor_pc' = (IF outcome' = "returned" /\ faults' = faults
                      THEN "sleep" ELSE "stopped")
    /\ UNCHANGED <<interrupted, classifier_vars, side_vars, integrator_vars>>

\* self.scan_logs() runs to its end, whatever monitor_logs does: scan_logs
\* catches Exception; then time.sleep(interval) is entered
MonitorScan ==
    /\ monitor_pc = "scan"
    /\ ScanLogsCall
    /\ monitor_pc' = "sleep"
    /\ UNCHANGED <<interrupted, classifier_vars, side_vars, integrator_vars>>

\* KeyboardInterrupt is raised while monitor_logs reads the file, k lines
\* having gone through its loop: `except Exception` of scan_logs does not
\* catch it, `except KeyboardInterrupt` of monitor_continuous does
InterruptInMonitorLogs ==
    /\ monitor_pc = "scan"
    /\ log_exists /\ log_readable
    /\ \E k \in 0..Len(log_lines) :
          /\ \A b \in BadLines(log_lines) : k < b
          /\ LET scan == ScanLoop(SubSeq(log_lines, 1, k), 1, <<>>,
                                  processed_errors, hash_seed)
             IN  /\ Raises("KeyboardInterrupt", scan.processed_errors)
                 /\ interrupted' =
                       [in |-> "monitor_logs", lines_read |-> k,
                        lines_unread |-> Len(log_lines) - k,
                        found |-> Len(scan.errors), processed |-> 0]
    /\ payloads' = <<>>
    /\ UNCHANGED <<processed_records, cut_off, status_found, faults>>
    /\ seen_before' = processed_errors
    /\ scans_of_file' = (IF scans_of_file = 0 THEN 1 ELSE 2)
    /\ scan_report' = StoppedReport(0, 0)
    /\ UNCHANGED <<log_exists, log_readable, log_lines, hash_seed>>
    /\ FirstScanRecorded
    /\ monitor_pc' = "stopped"
    /\ UNCHANGED <<classifier_vars, side_vars, integrator_vars>>

\* KeyboardInterrupt is raised in the loop of scan_logs over the records
\* monitor_logs returned, n of them having been processed
InterruptInScanLogs ==
    /\ monitor_pc = "scan"
    /\ monitor_logs(log_exists, log_readable, log_lines)
    /\ outcome' = "returned"
    /\ errors' # <<>>
    /\ \E n \in 0..(Len(Batch(errors')) - 1) :
          /\ ProcessBatch(SubSeq(Batch(errors'), 1, n), {})
          /\ scan_report' = StoppedReport(Len(errors'), n)
          /\ interrupted' =
                [in |-> "scan_logs", lines_read |-> Len(log_lines),
                 lines_unread |-> 0, found |-> Len(Batch(errors')),
                 processed |-> n]
    /\ cut_off' = cut_off \cup
          {errors'[i] : i \in (max_errors_per_batch + 1)..Len(errors')}
    /\ status_found' = status_found
    /\ FirstScanRecorded
    /\ monitor_pc' = "stopped"
    /\ UNCHANGED <<classifier_vars, side_vars, integrator_vars>>

\* time.sleep(interval) returns
MonitorWake ==
    /\ monitor_pc = "sleep"
    /\ monitor_pc' = "scan"
    /\ UNCHANGED <<scanner_vars, classifier_vars, side_vars, history_vars, interrupted,
                   integrator_vars, payload_vars>>

\* KeyboardInterrupt is raised in time.sleep(interval)
InterruptInSleep ==
    /\ monitor_pc = "sleep"
    /\ monitor_pc' = "stopped"
    /\ interrupted' = [NotInterrupted EXCEPT !.in = "time.sleep"]
    /\ UNCHANGED <<scanner_vars, classifier_vars, side_vars, history_vars,
                   integrator_vars, payload_vars>>

\* the application writes a line that lands before lines already there
InsertLine ==
    /\ log_exists
    /\ Len(log_lines) < MaxLines
    /\ \E l \in LineCatalogue : log_lines' = <<l>> \o log_lines
    /\ UNCHANGED <<log_exists, log_readable>>
    /\ LogChanged

NextMonitor ==
    \/ monitor_continuous
    \/ MonitorScan
    \/ InterruptInMonitorLogs
    \/ InterruptInScanLogs
    \/ MonitorWake
    \/ InterruptInSleep
    \/ CreateLog
    \/ AppendLine
    \/ InsertLine
    \/ TruncateLog
    \/ RemoveLog
    \/ ChmodLog

SpecMonitor == Init /\ [][NextMonitor]_vars

\* the Exceptions raised in payload building in one run of the monitor
MaxPayloadFailures == 1

\* the monitor command in a process in which payload building fails; the
\* process has one hash key for its life
InitFaults ==
    /\ log_exists = FALSE
    /\ log_readable = FALSE
    /\ log_lines = <<>>
    /\ hash_seed = 0
    /\ processed_errors = {}
    /\ outcome = "none"
    /\ errors = <<>>
    /\ returned = EmptyBag
    /\ seen_before = {}
    /\ scans_of_file = 0
    /\ scan_report = NoReport
    /\ fields = NoFields
    /\ line = ""
    /\ parsed = <<>>
    /\ detected = <<>>
    /\ faults = MaxPayloadFailures
    /\ PartsAtRest

NextFaults ==
    \/ monitor_continuous
    \/ MonitorScan
    \/ MonitorWake
    \/ InterruptInSleep
    \/ CreateLog
    \/ AppendLine

SpecFaults == InitFaults /\ [][NextFaults]_vars

-----------------------------------------------------------------------------
(* The classifier on its own: parse_log_line and _detect_error_type        *)
(* applied to one line put together from parts                             *)

ParsePrefixes == {"", "  ", "Traceback: "}

ParseLevels == {"ERROR", "CRITICAL", "WARNING", "INFO", "DEBUG", "error"}

ParseStamps == {"2024-01-15 10:30:45,123", "2024-01-15 10:30:45.123"}

ParseModules == {"views", "django.request"}

ParseIds == {"12345 67890", "12345"}

ParseMessages ==
    {"DatabaseError: UNIQUE constraint failed",
     "IntegrityError at 500 Internal Server Error",
     "databaseerror in lower case",
     "PermissionDenied: User lacks permission",
     "Unauthorized: invalid token",
     "ValidationError: Invalid membership plan selected",
     "Invalid request timeout",
     "Bad Gateway Request",
     "Request was Bad",
     "KeyError: 'gym' after timeout",
     "Internal Server Error in app/views.py line 42",
     "Slow query detected: SELECT took 2.5 seconds",
     "Connection reset by peer",
     "HTTP 500",
     "OperationalError in clients/models.py: slow query timeout",
     "AttributeError KeyError DatabaseError",
     "KeyError in 2fa/views.pyc called from gym/api.py"}

ParseFields ==
    [prefix : ParsePrefixes, level : ParseLevels, stamp : ParseStamps,
     module : ParseModules, ids : ParseIds, message : ParseMessages]

\* the raw line: the parts with one space between them
JoinFields(f) ==
    f.prefix \o f.level \o " " \o f.stamp \o " " \o f.module \o " "
        \o f.ids \o " " \o f.message

InitParse ==
    /\ log_exists = FALSE
    /\ log_readable = FALSE
    /\ log_lines = <<>>
    /\ hash_seed = 0
    /\ processed_errors = {}
    /\ outcome = "none"
    /\ errors = <<>>
    /\ returned = EmptyBag
    /\ seen_before = {}
    /\ scans_of_file = 0
    /\ scan_report = NoReport
    /\ fields \in ParseFields
    /\ line = JoinFields(fields)
    /\ parsed = <<>>
    /\ detected = <<>>
    /\ faults = 0
    /\ PartsAtRest

\* a call of parse_log_line on the line as the scan loop reads it
ParseLine ==
    /\ parsed = <<>>
    /\ parsed' = <<parse_log_line(ReadLine(line))>>
    /\ UNCHANGED <<fields, line, detected>>
    /\ UNCHANGED <<scanner_vars, history_vars, monitor_vars, integrator_vars,
                   payload_vars, side_vars>>

\* a call of _detect_error_type on the message
DetectMessage ==
    /\ detected = <<>>
    /\ detected' = <<_detect_error_type(fields.message)>>
    /\ UNCHANGED <<fields, line, parsed>>
    /\ UNCHANGED <<scanner_vars, history_vars, monitor_vars, integrator_vars,
                   payload_vars, side_vars>>

NextParse ==
    \/ ParseLine
    \/ DetectMessage

SpecParse == InitParse /\ [][NextParse]_vars

-----------------------------------------------------------------------------
(* GitHubIntegrator called on one record                                   *)

\* the lines whose records are passed to the integrator
PayloadLines ==
    LineCatalogue \cup
    {JoinFields([prefix |-> "", level |-> level,
                 stamp |-> "2024-01-15 10:30:45,123", module |-> "views",
                 ids |-> "12345 67890", message |-> message]) :
        level \in ErrorLevels, message \in ParseMessages}

\* the issue numbers passed: scan_logs passes the placeholder 999
IssueNumbers == {999, 7}

\* a process has scanned a log of one line and has its record to process
InitPayload ==
    /\ hash_seed \in HashSeeds
    /\ \E l \in PayloadLines :
          /\ l # InvalidUtf8
          /\ \E error \in {parse_log_line(ReadLine(l))} :
                /\ error # NoLogError
                /\ error_arg = error
                /\ log_lines = <<l>>
                /\ errors = <<error>>
                /\ processed_errors = {create_error_signature(error, hash_seed)}
                /\ returned = SeqToBag(<<error>>)
                /\ first_scan = [made |-> TRUE, file_same |-> TRUE,
                                 errors |-> <<error>>]
                /\ scan_report = ScanReport("returned", <<error>>, 0)
    /\ log_exists = TRUE
    /\ log_readable = TRUE
    /\ outcome = "returned"
    /\ seen_before = {}
    /\ scans_of_file = 1
    /\ previous_first = NoScan
    /\ monitor_pc = "off"
    /\ interrupted = NotInterrupted
    /\ issue_data = <<>>
    /\ pr_data = <<>>
    /\ created_issues = <<>>
    /\ faults = 0
    /\ SidesAtRest
    /\ fields = NoFields
    /\ line = ""
    /\ parsed = <<>>
    /\ detected = <<>>

\* the call that also enters the issue in created_issues
CallCreateIssueAndTrack ==
    /\ issue_data = <<>>
    /\ \E now \in NowChoices :
          issue_data' = <<create_issue_from_error(error_arg, now)>>
    /\ created_issues' = Append(created_issues, issue_data'[1].title)
    /\ UNCHANGED <<error_arg, pr_data>>
    /\ UNCHANGED <<scanner_vars, classifier_vars, side_vars, history_vars, monitor_vars,
                   payload_vars>>

\* a call of create_issue_from_error on the record
CallCreateIssue ==
    /\ issue_data = <<>>
    /\ \E now \in NowChoices :
          issue_data' = <<create_issue_from_error(error_arg, now)>>
    /\ UNCHANGED <<error_arg, pr_data, created_issues>>
    /\ UNCHANGED <<scanner_vars, classifier_vars, side_vars, history_vars, monitor_vars,
                   payload_vars>>

\* a call of create_pr_from_error on the record
CallCreatePr ==
    /\ pr_data = <<>>
    /\ \E issue_number \in IssueNumbers :
          pr_data' = <<create_pr_from_error(error_arg, issue_number)>>
    /\ UNCHANGED <<error_arg, issue_data, created_issues>>
    /\ UNCHANGED <<scanner_vars, classifier_vars, side_vars, history_vars, monitor_vars,
                   payload_vars>>

NextPayload ==
    \/ CallCreateIssue
    \/ CallCreatePr

SpecPayload == InitPayload /\ [][NextPayload]_vars

-----------------------------------------------------------------------------
(* GitHubIntegrator.process_errors_batch                                   *)

\* the longest list passed
MaxBatchInput == 3

\* an integrator is given a list: records of the monitor, a record whose
\* file_path is None, and None in place of a record
InitProcessBatch ==
    /\ log_exists = FALSE
    /\ log_readable = FALSE
    /\ log_lines = <<>>
    /\ hash_seed = 0
    /\ processed_errors = {}
    /\ outcome = "none"
    /\ errors = <<>>
    /\ returned = EmptyBag
    /\ seen_before = {}
    /\ scans_of_file = 0
    /\ scan_report = NoReport
    /\ fields = NoFields
    /\ line = ""
    /\ parsed = <<>>
    /\ detected = <<>>
    /\ faults = 0
    /\ first_scan = NoScan
    /\ previous_first = NoScan
    /\ monitor_pc = "off"
    /\ interrupted = NotInterrupted
    /\ error_arg = NoError
    /\ issue_data = <<>>
    /\ pr_data = <<>>
    /\ created_issues = <<>>
    /\ payloads = <<>>
    /\ processed_records = {}
    /\ cut_off = {}
    /\ status_found = {}
    /\ thread_pc = [t \in {1, 2} |-> "idle"]
    /\ thread_pos = [t \in {1, 2} |-> 0]
    /\ thread_errors = [t \in {1, 2} |-> <<>>]
    /\ overlapped = FALSE
    /\ follow_pc = "off"
    /\ follow_pos = 0
    /\ follow_errors = <<>>
    /\ batch_input \in UNION
          {[1..n -> {ParsedLine[LineA1], ParsedLine[LineB],
                     [ParsedLine[LineB] EXCEPT !.file_path = NoneStr],
                     NoLogError}] : n \in 0..MaxBatchInput}
    /\ batch_results = <<>>
    /\ config_file = [state |-> "missing", keys |-> {}, by |-> "none"]
    /\ config = <<>>

\* one call. In the try block an element without error_type, or whose
\* file_path is None, raises in building the payloads, and the prints of the
\* built payloads raise UnicodeEncodeError when stdout cannot encode their
\* signs; the handler prints a sign and error.error_type, and what it
\* raises leaves the call
process_errors_batch ==
    /\ batch_results = <<>>
    /\ \E stdout \in {"utf-8", "cp1252"} :
          LET record(i) == "error_type" \in DOMAIN batch_input[i]
              built(i) == record(i) /\ batch_input[i].file_path # NoneStr
              raising == {i \in DOMAIN batch_input :
                             ~record(i) \/ stdout # "utf-8"}
              last == IF raising = {} THEN Len(batch_input)
                      ELSE (CHOOSE i \in raising :
                               \A k \in raising : i <= k) - 1
          IN  batch_results' =
                 <<[issues_created |-> 0,
                    prs_created |-> 0,
                    errors_processed |->
                        Cardinality({i \in 1..last : built(i)}),
                    skipped |-> Cardinality({i \in 1..last : ~built(i)}),
                    raised |->
                        IF raising = {} THEN "none"
                        ELSE IF stdout # "utf-8" THEN "UnicodeEncodeError"
                        ELSE "AttributeError"]>>
    /\ UNCHANGED <<scanner_vars, classifier_vars, history_vars, monitor_vars,
                   integrator_vars, payload_vars, thread_pc, thread_pos,
                   thread_errors, overlapped, follow_pc, follow_pos,
                   follow_errors, batch_input, config_file, config>>

SpecProcessBatch == InitProcessBatch /\ [][process_errors_batch]_vars

-----------------------------------------------------------------------------
(* LogMonitorAutomation.load_config                                        *)

\* the keys of default_config
default_config ==
    {"repo_owner", "repo_name", "log_file_path", "monitor_interval",
     "max_errors_per_batch", "environment"}

\* config.json when the automation is built: missing; a directory, which
\* open() refuses; text that is not JSON; or JSON written by the user, an
\* object with some keys or an array of some names
InitConfig ==
    /\ log_exists = FALSE
    /\ log_readable = FALSE
    /\ log_lines = <<>>
    /\ hash_seed = 0
    /\ processed_errors = {}
    /\ outcome = "none"
    /\ errors = <<>>
    /\ returned = EmptyBag
    /\ seen_before = {}
    /\ scans_of_file = 0
    /\ scan_report = NoReport
    /\ fields = NoFields
    /\ line = ""
    /\ parsed = <<>>
    /\ detected = <<>>
    /\ faults = 0
    /\ first_scan = NoScan
    /\ previous_first = NoScan
    /\ monitor_pc = "off"
    /\ interrupted = NotInterrupted
    /\ error_arg = NoError
    /\ issue_data = <<>>
    /\ pr_data = <<>>
    /\ created_issues = <<>>
    /\ payloads = <<>>
    /\ processed_records = {}
    /\ cut_off = {}
    /\ status_found = {}
    /\ thread_pc = [t \in {1, 2} |-> "idle"]
    /\ thread_pos = [t \in {1, 2} |-> 0]
    /\ thread_errors = [t \in {1, 2} |-> <<>>]
    /\ overlapped = FALSE
    /\ follow_pc = "off"
    /\ follow_pos = 0
    /\ follow_errors = <<>>
    /\ batch_input = <<>>
    /\ batch_results = <<>>
    /\ config_file \in
          {[state |-> st, keys |-> {}, by |-> "none"] :
              st \in {"missing", "directory"}}
          \cup {[state |-> "not JSON", keys |-> {}, by |-> "user"]}
          \cup {[state |-> st, keys |-> ks, by |-> "user"] :
                  st \in {"object", "array"},
                  ks \in SUBSET (default_config \cup {"extra"})}
    /\ config = <<>>

\* the call made by __init__. A file that is there is opened and parsed,
\* and `if key not in config: config[key] = value` runs for each default:
\* an object gets its missing keys; an array that names every key passes
\* the tests and is returned, any other array raises in the assignment.
\* What the try block raises is caught, and the defaults are written with
\* open(self.config_file, 'w'), which is in no try block
load_config ==
    /\ config = <<>>
    /\ IF config_file.state = "object"
       THEN /\ config' =
                 <<[outcome |-> "returned", type |-> "dict",
                    items |-> [k \in config_file.keys \cup default_config |->
                                 IF k \in config_file.keys THEN "file"
                                 ELSE "default"]]>>
            /\ config_file' = config_file
       ELSE IF /\ config_file.state = "array"
               /\ default_config \subseteq config_file.keys
       THEN /\ config' =
                 <<[outcome |-> "returned", type |-> "list",
                    items |-> [k \in config_file.keys |-> "file"]]>>
            /\ config_file' = config_file
       ELSE IF config_file.state = "directory"
       THEN /\ config' =
                 <<[outcome |-> "IsADirectoryError", type |-> "none",
                    items |-> [k \in {} |-> "default"]]>>
            /\ config_file' = config_file
       ELSE /\ config' =
                 <<[outcome |-> "returned", type |-> "dict",
                    items |-> [k \in default_config |-> "default"]]>>
            /\ config_file' =
                 [state |-> "object", keys |-> default_config,
                  by |-> "load_config"]
    /\ UNCHANGED <<scanner_vars, classifier_vars, history_vars, monitor_vars,
                   integrator_vars, payload_vars, thread_pc, thread_pos,
                   thread_errors, overlapped, follow_pc, follow_pos,
                   follow_errors, batch_input, batch_results>>

SpecConfig == InitConfig /\ [][load_config]_vars

-----------------------------------------------------------------------------
(* The rule table read as sets of texts: what each pattern of              *)
(* error_patterns accepts, written without the matchers above, so that the *)
(* properties of the classifier compare two readings of the table          *)

RuleOrder ==
    << "database_error", "authentication_error", "validation_error",
       "server_error", "performance_issue" >>

RuleWords ==
    [database_error       |-> {"databaseerror", "integrityerror",
                               "operationalerror"},
     authentication_error |-> {"authenticationfailed", "permissiondenied",
                               "unauthorized"},
     validation_error     |-> {"validationerror", "invalid"},
     server_error         |-> {"500", "internal server error",
                               "attributeerror", "keyerror"},
     performance_issue    |-> {"slow query", "timeout", "performance"}]

RuleSeverity ==
    [database_error |-> "high", authentication_error |-> "medium",
     validation_error |-> "medium", server_error |-> "high",
     performance_issue |-> "medium"]

\* the characters lo..hi of s in lower case
RECURSIVE LowerRange(_, _, _)
LowerRange(s, lo, hi) ==
    IF lo > hi THEN ""
    ELSE IF lo = hi THEN Fold(CharAt(s, lo))
    ELSE CHOOSE r \in
        {LowerRange(s, lo, mid) \o LowerRange(s, mid + 1, hi) :
         mid \in {(lo + hi) \div 2}} : TRUE

\* the text w is somewhere in s, at or after index from
OccursFrom(s, w, from) ==
    \E i \in from..(Len(s) - Len(w) + 1) : SubSeq(s, i, i + Len(w) - 1) = w

\* the message contains a word of the rule whatever the case, or, for
\* validation_error, "bad" and after it "request"
RuleMatches(kind, message) ==
    \E m \in {LowerRange(message, 1, Len(message))} :
        \/ \E w \in RuleWords[kind] : OccursFrom(m, w, 1)
        \/ /\ kind = "validation_error"
           /\ \E i \in 1..(Len(m) - 2) :
                 /\ SubSeq(m, i, i + 2) = "bad"
                 /\ OccursFrom(m, "request", i + 3)

\* the earliest rule of the table that matches, NoneStr when none does
FirstRule(message) ==
    IF \A n \in 1..Len(RuleOrder) : ~RuleMatches(RuleOrder[n], message)
    THEN NoneStr
    ELSE RuleOrder[CHOOSE n \in 1..Len(RuleOrder) :
                      /\ RuleMatches(RuleOrder[n], message)
                      /\ \A k \in 1..(n - 1) : ~RuleMatches(RuleOrder[k], message)]

KeptLevels == {"ERROR", "CRITICAL", "WARNING"}

\* the line put together from f has the structure
\* LEVEL TIMESTAMP MODULE PID TID MESSAGE from its first non-blank character
WellFormed(f) ==
    /\ f.prefix \in {"", "  "}
    /\ f.stamp = "2024-01-15 10:30:45,123"
    /\ f.module = "views"
    /\ f.ids = "12345 67890"

\* the signature as the specification defines it
SignatureTriple(r) == <<r.error_type, r.file_path, HashOf[hash_seed][r]>>

\* the log file holds a line the classifier makes a record of
Classifiable(l) == l # InvalidUtf8 /\ ParsedLine[l] # NoLogError

-----------------------------------------------------------------------------
(* Properties                                                              *)

\* C1: over all the calls of one LogMonitor instance, with the log changing
\* freely between them, no two returned records have the same signature
\* (error kind, file path, hash of the first 100 message characters), and no
\* record is returned twice.
C1_NoTwoReturnedShareSignature ==
    \A r1 \in DOMAIN returned :
        /\ returned[r1] = 1
        /\ \A r2 \in DOMAIN returned :
              SignatureTriple(r1) = SignatureTriple(r2) => r1 = r2

\* C1 witness: after a scan that returned, two records have been returned
\* and the log holds a classifiable line that was suppressed.
C1_Witness ==
    /\ outcome = "returned"
    /\ scans_of_file >= 1
    /\ Cardinality(DOMAIN returned) >= 2
    /\ \E j \in DOMAIN log_lines :
          /\ Classifiable(log_lines[j])
          /\ ParsedLine[log_lines[j]] \notin DOMAIN returned

\* C2: the second of two calls on an unchanged log returns the empty list,
\* whatever the log contains.
C2_SecondScanReturnsEmpty ==
    scans_of_file = 2 => (outcome = "returned" /\ errors = <<>>)

\* C3: a fresh monitor scanning a log that holds exactly the five lines of
\* simulate_errors returns five records, one of each error kind.
C3_SimulatedLogGivesFiveKinds ==
    (/\ log_exists
     /\ log_readable
     /\ \E now \in NowChoices : log_lines = test_errors(now)
     /\ scans_of_file = 1
     /\ seen_before = {})
    => /\ outcome = "returned"
       /\ Len(errors) = 5
       /\ {errors[i].error_type : i \in DOMAIN errors} = Range(RuleOrder)

\* C4: a message that matches the database_error rule and the server_error
\* rule is classified database_error, and its record has severity high.
C4_DatabaseBeforeServer ==
    (/\ RuleMatches("database_error", fields.message)
     /\ RuleMatches("server_error", fields.message))
    => /\ detected # <<>> => detected[1] = "database_error"
       /\ (parsed # <<>> /\ parsed[1] # NoLogError)
             => /\ parsed[1].error_type = "database_error"
                /\ parsed[1].severity = "high"

\* C4 witness: such a message has been classified and its line parsed.
C4_Witness ==
    /\ RuleMatches("database_error", fields.message)
    /\ RuleMatches("server_error", fields.message)
    /\ detected = <<"database_error">>
    /\ parsed # <<>>
    /\ parsed[1] # NoLogError

\* C5: the classifier returns the earliest rule, in the order database,
\* authentication, validation, server, performance, whose pattern matches
\* case-insensitively anywhere in the message, and no kind exactly when no
\* rule matches.
C5_EarliestMatchingRule ==
    detected # <<>> => detected[1] = FirstRule(fields.message)

\* C5 witness: a message matching validation_error and performance_issue
\* has been classified validation_error.
C5_Witness ==
    /\ detected = <<"validation_error">>
    /\ RuleMatches("performance_issue", fields.message)

\* C6 as claimed: a well-formed line at a kept level whose message matches
\* a rule R gets the kind and severity of R, for every rule R it matches.
C6_KindOfAnyMatchingRule ==
    \A n \in 1..Len(RuleOrder) :
        (/\ parsed # <<>>
         /\ WellFormed(fields)
         /\ fields.level \in KeptLevels
         /\ RuleMatches(RuleOrder[n], fields.message))
        => /\ parsed[1] # NoLogError
           /\ parsed[1].error_type = RuleOrder[n]
           /\ parsed[1].severity = RuleSeverity[RuleOrder[n]]

\* C6 amended: a well-formed line at a kept level whose message matches at
\* least one rule gets the kind and severity of the earliest rule it matches.
C6_KindOfEarliestMatchingRule ==
    (/\ parsed # <<>>
     /\ WellFormed(fields)
     /\ fields.level \in KeptLevels
     /\ FirstRule(fields.message) # NoneStr)
    => /\ parsed[1] # NoLogError
       /\ parsed[1].error_type = FirstRule(fields.message)
       /\ parsed[1].severity = RuleSeverity[FirstRule(fields.message)]

\* C6 witness: a WARNING line with a database_error message is parsed.
C6_Witness ==
    /\ parsed # <<>>
    /\ parsed[1] # NoLogError
    /\ fields.level = "WARNING"
    /\ parsed[1].error_type = "database_error"
    /\ parsed[1].severity = "high"

\* C7: no record is made of a line whose level is not ERROR, CRITICAL or
\* WARNING, or of a line that does not have the structure from its first
\* non-blank character, even when its text matches a rule.
C7_NoRecordOfIgnoredLine ==
    (parsed # <<>> /\ parsed[1] # NoLogError)
    => /\ fields.level \in KeptLevels
       /\ WellFormed(fields)

\* C7 witness: a well-formed INFO line whose message matches a rule has been
\* parsed and gave no record.
C7_Witness ==
    /\ parsed = <<NoLogError>>
    /\ WellFormed(fields)
    /\ fields.level = "INFO"
    /\ FirstRule(fields.message) # NoneStr

\* C8: records of the same error kind, the same file path and the same first
\* 100 message characters are returned at most once over the life of a
\* monitor instance, however their lines differ otherwise.
C8_SamePrefixReturnedOnce ==
    \A r1 \in DOMAIN returned :
        /\ returned[r1] = 1
        /\ \A r2 \in DOMAIN returned :
              (/\ r1.error_type = r2.error_type
               /\ r1.file_path = r2.file_path
               /\ Prefix(r1.message, 100) = Prefix(r2.message, 100))
              => r1 = r2

\* C8 witness: the log holds two lines that differ in level, timestamp, PID,
\* TID and the message after character 100, it has been scanned, and one of
\* the two records has been returned.
C8_Witness ==
    /\ outcome = "returned"
    /\ scans_of_file >= 1
    /\ LineA1 \in Range(log_lines)
    /\ LineA2 \in Range(log_lines)
    /\ ParsedLine[LineA1] # ParsedLine[LineA2]
    /\ Len(ParsedLine[LineA1].message) > 100
    /\ \E r \in DOMAIN returned : r \in {ParsedLine[LineA1], ParsedLine[LineA2]}

C10_MonitorLogsNeverRaises ==
    outcome \in {"none", "returned"}

\* the leftmost text of the message that is a letter or underscore, then
\* letters, digits, underscores and slashes, then ".py"; NoneStr without one
FirstPathToken(message) ==
    LET IsToken(i, j) ==
            /\ CharAt(message, i) \in PathStartChars
            /\ \A k \in (i + 1)..(j - 1) : CharAt(message, k) \in PathChars
            /\ SubSeq(message, j, j + 2) = ".py"
        tokens == {ij \in (1..Len(message)) \X (1..(Len(message) - 2)) :
                      ij[1] < ij[2] /\ IsToken(ij[1], ij[2])}
    IN  IF tokens = {} THEN NoneStr
        ELSE LET first == CHOOSE ij \in tokens :
                             \A other \in tokens : ij[1] <= other[1]
             IN  SubSeq(message, first[1], first[2] + 2)

\* the text each fix method returns
FixOfKind ==
    [database_error       |-> "# Database Error Fix",
     authentication_error |-> "# Authentication Error Fix",
     validation_error     |-> "# Validation Error Fix",
     server_error         |-> "# Server Error Fix",
     performance_issue    |-> "# Performance Issue Fix"]

\* C14: the severity of a record is that of its error kind (high for
\* database_error and server_error, medium for the three others) whatever
\* the level of the line: a WARNING line with PermissionDenied gives
\* authentication_error with severity medium, and no record has severity low.
C14_SeverityFromKindAlone ==
    (parsed # <<>> /\ parsed[1] # NoLogError)
    => /\ parsed[1].severity = RuleSeverity[parsed[1].error_type]
       /\ parsed[1].severity # "low"
       /\ (fields.level = "WARNING"
              /\ fields.message = "PermissionDenied: User lacks permission")
          => (parsed[1].error_type = "authentication_error"
                 /\ parsed[1].severity = "medium")

\* C14 witness: a WARNING line with PermissionDenied has given a record of
\* severity medium.
C14_Witness ==
    /\ parsed # <<>>
    /\ parsed[1] # NoLogError
    /\ fields.level = "WARNING"
    /\ fields.message = "PermissionDenied: User lacks permission"
    /\ parsed[1].severity = "medium"

\* C18: the file path of a record is the first path-like token ending in
\* .py of the message when the message has one, otherwise the module name
\* of the line followed by .py; it is never empty.
C18_PathFromMessageOrModule ==
    (parsed # <<>> /\ parsed[1] # NoLogError)
    => /\ parsed[1].file_path # ""
       /\ parsed[1].file_path =
             IF FirstPathToken(fields.message) # NoneStr
             THEN FirstPathToken(fields.message)
             ELSE fields.module \o ".py"

\* C18 witness: a record made of a message with two such tokens carries the
\* first of them.
C18_Witness ==
    /\ parsed # <<>>
    /\ parsed[1] # NoLogError
    /\ fields.message = "KeyError in 2fa/views.pyc called from gym/api.py"
    /\ parsed[1].file_path = "fa/views.py"

\* C19: the suggested fix of a record is a function of its error kind: two
\* records of one kind carry the same text whatever their message, path,
\* level or timestamp.
C19_FixFromKindAlone ==
    (parsed # <<>> /\ parsed[1] # NoLogError)
    => parsed[1].suggested_fix = FixOfKind[parsed[1].error_type]

\* C19 witness: a server_error record whose message names a file carries the
\* server fix.
C19_Witness ==
    /\ parsed # <<>>
    /\ parsed[1] # NoLogError
    /\ parsed[1].error_type = "server_error"
    /\ parsed[1].file_path = "app/views.py"
    /\ parsed[1].suggested_fix = "# Server Error Fix"

\* the last call read the whole of the log as it is now
WholeLogRead ==
    /\ scans_of_file >= 1
    /\ log_exists
    /\ log_readable
    /\ BadLines(log_lines) = {}

\* the signatures of the records of a list
SignaturesOf(found) ==
    {SignatureOf[hash_seed][found[i]] : i \in DOMAIN found}

\* the lines of the log that carry the signature of record r
LinesWith(r) ==
    {j \in DOMAIN log_lines :
        /\ Classifiable(log_lines[j])
        /\ SignatureOf[hash_seed][ParsedLine[log_lines[j]]]
              = SignatureOf[hash_seed][r]}

\* the first of them
FirstLineWith(r) == CHOOSE j \in LinesWith(r) : \A k \in LinesWith(r) : j <= k

\* records r1 and r2 differ in error kind or in file path
DifferInKindOrPath(r1, r2) ==
    r1.error_type # r2.error_type \/ r1.file_path # r2.file_path

\* C15: within a scan, a line that fails the structure, has an ignored
\* level, matches no rule or has a signature already seen changes neither
\* the list nor processed_errors and raises nothing: when the scan is over,
\* processed_errors has grown by exactly one signature for each returned
\* record, and each returned record is that of a line of the log.
C15_OnlyReturnedLinesAddSignatures ==
    WholeLogRead
    => /\ outcome = "returned"
       /\ processed_errors = seen_before \cup SignaturesOf(errors)
       /\ SignaturesOf(errors) \cap seen_before = {}
       /\ Cardinality(SignaturesOf(errors)) = Len(errors)
       /\ \A i \in DOMAIN errors :
             \E j \in DOMAIN log_lines :
                 Classifiable(log_lines[j])
                    /\ errors[i] = ParsedLine[log_lines[j]]

\* C15 witness: a scan of a log that holds a line with an ignored level and
\* a line whose signature was seen has returned nothing and changed nothing.
C15_Witness ==
    /\ WholeLogRead
    /\ outcome = "returned"
    /\ LineD \in Range(log_lines)
    /\ \E j \in DOMAIN log_lines : Classifiable(log_lines[j])
    /\ errors = <<>>
    /\ seen_before # {}
    /\ processed_errors = seen_before

\* C16: the list a one-time scan returns is in file order, and the record
\* returned for a signature is that of the first line of the file with
\* that signature, never that of a later duplicate.
C16_FileOrderFirstOccurrence ==
    WholeLogRead
    => /\ \A i \in DOMAIN errors :
             /\ LinesWith(errors[i]) # {}
             /\ errors[i] = ParsedLine[log_lines[FirstLineWith(errors[i])]]
       /\ \A i, k \in DOMAIN errors :
             i < k => FirstLineWith(errors[i]) < FirstLineWith(errors[k])

\* C16 witness: the log holds two lines of one signature, the second in the
\* catalogue first, and the scan returned the record of the first line.
C16_Witness ==
    /\ WholeLogRead
    /\ outcome = "returned"
    /\ log_lines = <<LineA2, LineA1>>
    /\ errors = <<ParsedLine[LineA2]>>
    /\ ParsedLine[LineA2].level = "CRITICAL"

\* C17: two classifiable lines whose records differ in error kind or in file
\* path, the module placeholder included, do not suppress one another even
\* when their messages are the same: a fresh monitor returns each of them,
\* unless an earlier line of its own kind and path stands before it.
C17_KindAndPathSeparateSignatures ==
    (WholeLogRead /\ seen_before = {})
    => \A j, k \in DOMAIN log_lines :
          (/\ Classifiable(log_lines[j])
           /\ Classifiable(log_lines[k])
           /\ DifferInKindOrPath(ParsedLine[log_lines[j]],
                                 ParsedLine[log_lines[k]])
           /\ \A i \in 1..(j - 1) :
                 Classifiable(log_lines[i])
                    => DifferInKindOrPath(ParsedLine[log_lines[i]],
                                          ParsedLine[log_lines[j]]))
          => \E n \in DOMAIN errors : errors[n] = ParsedLine[log_lines[j]]

\* C17 witness: a fresh monitor has returned the records of two lines with
\* the same message and different module names.
C17_Witness ==
    /\ WholeLogRead
    /\ seen_before = {}
    /\ outcome = "returned"
    /\ LineB \in Range(log_lines)
    /\ LineC \in Range(log_lines)
    /\ ParsedLine[LineB].message = ParsedLine[LineC].message
    /\ ParsedLine[LineB].file_path # ParsedLine[LineC].file_path
    /\ {ParsedLine[LineB], ParsedLine[LineC]} \subseteq Range(errors)

\* the previous instance and this one have each made their first call on
\* the log as it is now
BothFirstScansOfThisLog ==
    /\ previous_first.made /\ previous_first.file_same
    /\ first_scan.made /\ first_scan.file_same

\* C12 as claimed: a new LogMonitor starts with an empty processed_errors,
\* and its scan of an unchanged log returns again every record the first
\* scan of the instance before it returned.
C12_RestartReturnsAllAgain ==
    /\ (~first_scan.made /\ outcome = "none") => processed_errors = {}
    /\ BothFirstScansOfThisLog
       => Range(previous_first.errors) \subseteq Range(first_scan.errors)

\* C12 amended: a new LogMonitor starts with an empty processed_errors, and
\* its scan of an unchanged log returns again every record the first scan
\* of the instance before it returned, except a record whose kind, path and
\* prefix hash under the new process's hash key are those of another record
\* that the scan returns.
C12_RestartReturnsAllButCollisions ==
    /\ (~first_scan.made /\ outcome = "none") => processed_errors = {}
    /\ BothFirstScansOfThisLog
       => \A r \in Range(previous_first.errors) :
             \/ r \in Range(first_scan.errors)
             \/ \E e \in Range(first_scan.errors) :
                   /\ e # r
                   /\ SignatureTriple(e) = SignatureTriple(r)

\* C12 witness: the instance before returned two records from this log, and
\* the new instance has returned the same two.
C12_Witness ==
    /\ BothFirstScansOfThisLog
    /\ Len(previous_first.errors) = 2
    /\ first_scan.errors = previous_first.errors
    /\ returned = SeqToBag(first_scan.errors)

\* C11: every pass of continuous monitoring reads the log from its first
\* line: after a pass, every classifiable line that was anywhere in the log
\* with a signature not seen before the pass has a record with that
\* signature in the list the pass got, and no record of the list has a
\* signature seen in an earlier pass.
C11_EveryPassReturnsTheUnseen ==
    (monitor_pc = "sleep" /\ scans_of_file >= 1 /\ log_exists)
    => /\ \A j \in DOMAIN log_lines :
             (/\ Classifiable(log_lines[j])
              /\ SignatureOf[hash_seed][ParsedLine[log_lines[j]]]
                    \notin seen_before)
             => \E i \in DOMAIN errors :
                   SignatureOf[hash_seed][errors[i]]
                      = SignatureOf[hash_seed][ParsedLine[log_lines[j]]]
       /\ \A i \in DOMAIN errors :
             SignatureOf[hash_seed][errors[i]] \notin seen_before

\* C13: KeyboardInterrupt ends the monitoring loop only between passes: no
\* scan ends with lines read and the rest unread, or with records found
\* and not processed.
C13_InterruptOnlyBetweenPasses ==
    monitor_pc = "stopped"
    => /\ ~(interrupted.lines_read >= 1 /\ interrupted.lines_unread >= 1)
       /\ interrupted.processed = interrupted.found

\* C20: building an issue payload or a pull request payload only builds
\* data: the issue payload has exactly the fields title, body, labels and
\* assignees, with no assignee; the pull request payload has exactly branch,
\* title, body, head and base, with head the branch and base main; and the
\* call changes neither the record, nor processed_errors, nor
\* created_issues.
C20_PayloadsArePureData ==
    /\ [](issue_data # <<>>
            => /\ DOMAIN issue_data[1] = {"title", "body", "labels", "assignees"}
               /\ issue_data[1].assignees = <<>>)
    /\ [](pr_data # <<>>
            => /\ DOMAIN pr_data[1] = {"branch", "title", "body", "head", "base"}
               /\ pr_data[1].head = pr_data[1].branch
               /\ pr_data[1].base = "main")
    /\ [][(issue_data' # issue_data \/ pr_data' # pr_data)
             => UNCHANGED <<error_arg, processed_errors, created_issues>>]_vars

\* C20 witness: both payloads have been built from a server_error record of
\* a monitor that has seen its signature.
C20_Witness ==
    /\ issue_data # <<>>
    /\ pr_data # <<>>
    /\ processed_errors # {}
    /\ error_arg.error_type = "server_error"
    /\ issue_data[1].title = "Server Error: app/views.py"
    /\ pr_data[1].branch = "fix/server_error-app-views-999"

\* C22: every signature in processed_errors is the signature of a record that
\* some call of monitor_logs on this instance has returned: no scan leaves
\* the signature of a record it did not deliver.
C22_EverySeenSignatureWasReturned ==
    \A signature \in processed_errors :
        \E error \in DOMAIN returned :
            create_error_signature(error, hash_seed) = signature

\* C28: the branch of a pull request payload is named after the kind, the
\* path and the issue number alone, and scan_logs passes 999 for every
\* record: two records of one scan with the same kind and the same path get
\* the same branch and the same head.
C28_SameKindAndPathSameBranch ==
    \A i, j \in DOMAIN payloads :
        (payloads[i].pr # <<>> /\ payloads[j].pr # <<>>) =>
            /\ payloads[i].pr[1].body.issue_number = 999
            /\ payloads[i].pr[1].head = payloads[i].pr[1].branch
            /\ (/\ payloads[i].error.error_type = payloads[j].error.error_type
                /\ payloads[i].error.file_path = payloads[j].error.file_path)
                  => /\ payloads[i].pr[1].branch = payloads[j].pr[1].branch
                     /\ payloads[i].pr[1].head = payloads[j].pr[1].head

\* C28 witness: one scan has built pull requests for two records that differ
\* in their message and share kind and path, both on the same branch.
C28_Witness ==
    \E i, j \in DOMAIN payloads :
        /\ payloads[i].pr # <<>> /\ payloads[j].pr # <<>>
        /\ payloads[i].error.message # payloads[j].error.message
        /\ payloads[i].error.error_type = "authentication_error"
        /\ payloads[j].error.error_type = "authentication_error"
        /\ payloads[i].error.file_path = payloads[j].error.file_path
        /\ payloads[i].pr[1].branch = "fix/authentication_error-security-999"
        /\ payloads[j].pr[1].head = "fix/authentication_error-security-999"

\* C27: an Exception raised during a scan, in reading the log or in building
\* the payloads of one record, does not end continuous monitoring: the loop
\* over the batch goes on past the record that failed, scan_logs returns and
\* monitor_continuous goes to its wait; the loop is left on KeyboardInterrupt
\* only.
C27_ExceptionNeverEndsMonitoring ==
    /\ [](monitor_pc = "stopped" => interrupted.in # "none")
    /\ [][(monitor_pc = "scan" /\ monitor_pc' # "scan"
               /\ interrupted' = interrupted)
             => /\ monitor_pc' = "sleep"
                /\ scan_report'.command = "scan"
                /\ Len(payloads') = Len(Batch(errors'))
                /\ \A i \in DOMAIN payloads' :
                      payloads'[i].error = Batch(errors')[i]
                /\ scan_report'.processed = Cardinality(
                      {i \in DOMAIN payloads' : payloads'[i].pr # <<>>})
                /\ scan_report'.processed + (faults - faults')
                      = Len(Batch(errors'))]_vars

\* C27 witness: in one scan of the monitor the payloads of a record failed
\* and those of a record after it in the batch were built, and the monitor
\* is waiting for the next scan.
C27_Witness ==
    /\ monitor_pc = "sleep"
    /\ \E i, j \in DOMAIN payloads :
          /\ i < j
          /\ payloads[i].pr = <<>>
          /\ payloads[j].pr # <<>>
    /\ scan_report.processed = Len(payloads) - 1

\* C24: the test scan of show_status and of setup adds the signatures of the
\* records it finds to processed_errors and builds no payload for them; no
\* scan_logs on the same instance reports or processes such a record.
C24_StatusScanConsumesRecords ==
    /\ [](status_found \cap processed_records = {})
    /\ [](scan_report.command = "scan"
            => Range(errors) \cap status_found = {})
    /\ [][status_found' # status_found
             => /\ \A error \in status_found' :
                      create_error_signature(error, hash_seed)
                          \in processed_errors'
                /\ UNCHANGED <<payloads, processed_records>>]_vars

\* C24 witness: a record was returned to show_status or setup, its line is
\* still in the log, and a scan_logs made after it has returned without it.
C24_Witness ==
    /\ scan_report.command = "scan"
    /\ outcome = "returned"
    /\ \E i \in DOMAIN log_lines :
          /\ log_lines[i] # InvalidUtf8
          /\ ParsedLine[log_lines[i]] \in status_found
    /\ processed_records = {}

\* C25: processed_errors only grows during the life of an instance, and
\* each one-time scan that returns has returned as many records as it has
\* added signatures.
C25_SeenOnlyGrowsByWhatIsReturned ==
    /\ [](outcome = "returned"
            => Len(errors) = Cardinality(processed_errors \ seen_before))
    /\ [][processed_errors \subseteq processed_errors']_vars

\* C25 witness: a scan on an instance that had seen signatures has returned
\* one record and added one signature, on a log of two classifiable lines.
C25_Witness ==
    /\ outcome = "returned"
    /\ seen_before # {}
    /\ Len(errors) = 1
    /\ Cardinality(processed_errors) = Cardinality(seen_before) + 1
    /\ Len(log_lines) = 2

\* C23: one call of scan_logs builds payloads for at most
\* max_errors_per_batch records; the records it cuts off are processed by
\* no call of scan_logs on the instance, before or after: their signatures
\* are in processed_errors from the scan that returned them.
C23_CutOffRecordsAreNeverProcessed ==
    /\ Len(payloads) <= max_errors_per_batch
    /\ scan_report.processed <= max_errors_per_batch
    /\ cut_off \cap processed_records = {}
    /\ \A error \in cut_off :
          create_error_signature(error, hash_seed) \in processed_errors

\* C23 witness: a scan found more records than one batch and cut some off;
\* a later scan_logs on the same log has returned, finding nothing, with the
\* cut-off lines still in the log and ten records processed in all.
C23_Witness ==
    /\ cut_off # {}
    /\ scan_report.command = "scan"
    /\ scan_report.status = "No errors found"
    /\ \A error \in cut_off :
          \E i \in DOMAIN log_lines : ParsedLine[log_lines[i]] = error
    /\ Cardinality(processed_records) = max_errors_per_batch

\* C26: monitor_logs(follow=True) on an existing file never returns: it
\* starts behind the lines the file holds, which it never examines, goes
\* through the lines written later and waits at the end of the file; the
\* records it collects are returned to no caller.
C26_FollowNeverReturns ==
    /\ [](follow_pc # "returned")
    /\ [][(follow_pc = "off" /\ follow_pc' = "not found")
             => ~log_exists]_vars
    /\ [](returned = EmptyBag /\ errors = <<>>)
    /\ [][(follow_pc = "off" /\ follow_pc' = "loop")
             => /\ follow_pos' = Len(log_lines)
                /\ processed_errors' = processed_errors]_vars
    /\ [][(follow_pc \in {"loop", "sleep"})
             => /\ follow_pos' >= follow_pos
                /\ follow_pc' \in {"loop", "sleep", "UnicodeDecodeError"}
                /\ (processed_errors' # processed_errors
                      => (/\ follow_pos' = follow_pos + 1
                          /\ processed_errors' \ processed_errors =
                                {create_error_signature(
                                    ParsedLine[log_lines[follow_pos']],
                                    hash_seed)}))]_vars

\* C26 witness: the call started on a file that held a classifiable line,
\* has collected the record of a line written later and waits at the end of
\* the file; the signature of the first line is not in processed_errors.
C26_Witness ==
    /\ follow_pc = "sleep"
    /\ Len(log_lines) = 2
    /\ follow_pos = 2
    /\ Len(follow_errors) = 1
    /\ follow_errors[1] = ParsedLine[log_lines[2]]
    /\ ParsedLine[log_lines[1]] # NoLogError
    /\ create_error_signature(ParsedLine[log_lines[1]], hash_seed)
          \notin processed_errors

\* C21: the membership test and the insertion into processed_errors are
\* separate steps, so two calls of monitor_logs on one instance that
\* interleave can both collect a record with the same signature; when the
\* calls run one after the other no signature is collected twice.
C21_DuplicatesOnlyWhenScansInterleave ==
    /\ \A t \in DOMAIN thread_errors :
          \A i, j \in DOMAIN thread_errors[t] :
              SignatureOf[hash_seed][thread_errors[t][i]]
                  = SignatureOf[hash_seed][thread_errors[t][j]]
                => i = j
    /\ (\E i \in DOMAIN thread_errors[1], j \in DOMAIN thread_errors[2] :
           SignatureOf[hash_seed][thread_errors[1][i]]
               = SignatureOf[hash_seed][thread_errors[2][j]])
          => overlapped

\* C21 witness: two calls that interleaved have both returned, each with
\* the record of the same line.
C21_Witness ==
    /\ thread_pc[1] = "returned"
    /\ thread_pc[2] = "returned"
    /\ overlapped
    /\ thread_errors[1] # <<>>
    /\ thread_errors[1] = thread_errors[2]

\* C29: process_errors_batch returns its counters, with errors_processed +
\* skipped equal to the number of records passed and issues_created and
\* prs_created both 0; a record that fails is counted as skipped and never
\* makes the call raise.
C29_BatchCountsEveryRecord ==
    batch_results # <<>> =>
        /\ batch_results[1].raised = "none"
        /\ batch_results[1].errors_processed + batch_results[1].skipped
              = Len(batch_input)
        /\ batch_results[1].issues_created = 0
        /\ batch_results[1].prs_created = 0

\* C30: load_config returns a configuration in every case. From a config
\* file that can be read it keeps every key the file holds, takes only the
\* missing keys from the defaults and leaves the file as it is; when the
\* file is missing or cannot be parsed it returns the defaults and writes
\* them to the file. A file that is JSON and no object may be taken either
\* way.
C30_LoadConfigKeepsOrWritesDefaults ==
    [][config' # config =>
          LET result == config'[1]
              kept ==
                  /\ result.outcome = "returned"
                  /\ result.type = "dict"
                  /\ DOMAIN result.items = config_file.keys \cup default_config
                  /\ \A k \in DOMAIN result.items :
                        result.items[k] = (IF k \in config_file.keys
                                           THEN "file" ELSE "default")
                  /\ config_file' = config_file
              defaults ==
                  /\ result.outcome = "returned"
                  /\ result.type = "dict"
                  /\ result.items = [k \in default_config |-> "default"]
                  /\ config_file'.state = "object"
                  /\ config_file'.keys = default_config
                  /\ config_file'.by = "load_config"
          IN  CASE config_file.state = "object" -> kept
                [] config_file.state = "array" -> kept \/ defaults
                [] OTHER -> defaults]_vars

====
